---- MODULE Spec2Model ----
(***************************************************************************)
(* TwitterClient (src/modules/twitter_client.py): the cache in front of    *)
(* get_recent_tweets, the per-account task _get_user_tweets run on the     *)
(* thread pool, the browser handles it acquires and quits, and the         *)
(* incremental collector process_tweet_elements with its scroll loop.      *)
(*                                                                         *)
(* Time is in seconds.  Handles (user names) are sequences of characters   *)
(* so that lower() is computed; a cache key is the pair the f-string       *)
(* "tweets_{hours}" is built from.                                         *)
(***************************************************************************)
EXTENDS Integers, Sequences, FiniteSets, TLC

VARIABLES
    now,                \* the wall clock, datetime.now(timezone.utc)
    world,              \* what lies outside the client: the users configured, what the site
                        \* can render, the windows callers ask for
    cookies,            \* self._cookies
    tweets_cache,       \* self._tweets_cache
    tweets_cache_time,  \* self._tweets_cache_time
    call,               \* one activation record per caller of get_recent_tweets
    task,               \* the _get_user_tweets task a caller has handed to the executor
    live,               \* browser processes that were started and have not been torn down
    lastCall,           \* history: the last call that returned
    lastRun,            \* history: per window, the last call that returned after collecting
    formatter,          \* an activation of TweetFormatter.format_for_discord
    webhook,            \* an activation of send_message_to_discord
    config              \* the environment and the Config built from it

\* what the components beside the Twitter client work on
aside == <<formatter, webhook, config>>

vars == <<now, world, cookies, tweets_cache, tweets_cache_time, call, task, live,
          lastCall, lastRun, aside>>

(***************************************************************************)
(* Bounds of the model.                                                    *)
(***************************************************************************)
\* the clock advances in steps of TickSeconds, MaxTicks times at most
TickSeconds == 100
MaxTicks == 3
\* callers of get_recent_tweets
MaxCallers == 2
\* containers rendered at one extraction
MaxBatch == 2
\* browser processes that are never torn down
MaxLeaks == 1

(***************************************************************************)
(* Constants of the program.                                               *)
(***************************************************************************)
cache_ttl_minutes == 5
max_workers == 3
max_scrolls == 10

Callers == 1..MaxCallers
\* Python's None, and with it every empty (falsy) sequence
None == <<>>

Range(s) == {s[i] : i \in DOMAIN s}

(***************************************************************************)
(* str.lower(), on the letters the model uses.                             *)
(***************************************************************************)
LowerChar(c) ==
    CASE c = "A" -> "a"
      [] c = "B" -> "b"
      [] c = "C" -> "c"
      [] c = "L" -> "l"
      [] c = "O" -> "o"
      [] OTHER -> c

Lower(s) == [i \in DOMAIN s |-> LowerChar(s[i])]

\* one key for every window
CacheKey_Shared(hours) == <<"tweets", 0>>

\* f"tweets_{hours}"
CacheKey(hours) == <<"tweets", hours>>

\* timedelta(hours=hours), in seconds
HoursDelta(hours) == hours * 60 * 60

\* the age compared with the minutes, not the seconds
CacheFresh_Minutes(cache, cache_time, cache_key, current_time) ==
    /\ cache_key \in DOMAIN cache
    /\ cache_key \in DOMAIN cache_time
    /\ current_time - cache_time[cache_key] < cache_ttl_minutes

\* an entry as old as the TTL still served
CacheFresh_Inclusive(cache, cache_time, cache_key, current_time) ==
    /\ cache_key \in DOMAIN cache
    /\ cache_key \in DOMAIN cache_time
    /\ current_time - cache_time[cache_key] <= cache_ttl_minutes * 60

\* the cache test of get_recent_tweets, lines 151-153
CacheFresh(cache, cache_time, cache_key, current_time) ==
    /\ cache_key \in DOMAIN cache
    /\ cache_key \in DOMAIN cache_time
    /\ current_time - cache_time[cache_key] < cache_ttl_minutes * 60

\* the keys not lower-cased
EmptyByUser_Raw(users) == [u \in Range(users) |-> <<>>]

\* {username.lower(): [] for username in self.config.twitter_users}
EmptyByUser(users) == [u \in {Lower(x) : x \in Range(users)} |-> <<>>]

\* d[key] = value on a dict
Put(d, key, value) == [x \in DOMAIN d \cup {key} |-> IF x = key THEN value ELSE d[x]]

(***************************************************************************)
(* The page.  A rendered container (article[data-testid='tweet']) is a     *)
(* record:                                                                 *)
(*   links        the status numbers of its a[href*='/status/'] links, in  *)
(*                order; 0 is an href in which no digits follow /status/   *)
(*   author_links the last path segment of each link under User-Name       *)
(*   text         <<>> when there is no tweetText element, else <<t>>      *)
(*   time         <<>> when there is no datetime attribute, else <<t>>     *)
(*   imgs         the img elements under tweetPhoto, each [media, name]    *)
(*   fault        where reading the container throws, if it does           *)
(***************************************************************************)
Faults == {"none", "stale_links", "author_error", "stale_text", "error_text"}

\* re.sub(r"&name=\w+", "&name=orig", img_url)
OrigUrl(img) == [img EXCEPT !.name = IF img.name = <<>> THEN <<>> ELSE <<"orig">>]

\* lines 275-285: the images kept, in order
RECURSIVE ImageUrls(_)
ImageUrls(imgs) ==
    IF imgs = <<>> THEN <<>>
    ELSE (IF Head(imgs).media THEN <<OrigUrl(Head(imgs))>> ELSE <<>>) \o ImageUrls(Tail(imgs))

\* the handles compared as they are written
RetweetOf_CaseSensitive(c, username) ==
    IF c.fault # "author_error" /\ Len(c.author_links) >= 2
          /\ c.author_links[2] # username
    THEN [is_retweet |-> TRUE, original_author |-> Lower(c.author_links[2])]
    ELSE [is_retweet |-> FALSE, original_author |-> None]

\* a repost is flagged, its author is not kept
RetweetOf_NoAuthor(c, username) ==
    IF c.fault # "author_error" /\ Len(c.author_links) >= 2
          /\ Lower(c.author_links[2]) # Lower(username)
    THEN [is_retweet |-> TRUE, original_author |-> None]
    ELSE [is_retweet |-> FALSE, original_author |-> None]

\* lines 230-248: [is_retweet, original_author] of a container
RetweetOf(c, username) ==
    IF c.fault # "author_error" /\ Len(c.author_links) >= 2
          /\ Lower(c.author_links[2]) # Lower(username)
    THEN [is_retweet |-> TRUE, original_author |-> Lower(c.author_links[2])]
    ELSE [is_retweet |-> FALSE, original_author |-> None]

\* a container without a time is given a time long past
CreatedAt_LongAgo(c, clock) == IF c.time = <<>> THEN 0 - HoursDelta(1000) ELSE c.time[1]

\* lines 258-264: created_at of a container read at time clock
CreatedAt(c, clock) == IF c.time = <<>> THEN clock ELSE c.time[1]

\* lines 290-301: tweet_data
TweetData(c, username, clock) ==
    LET rt   == RetweetOf(c, username)
        base == [id         |-> c.links[1],
                 text       |-> IF c.text = <<>> THEN "" ELSE c.text[1],
                 created_at |-> CreatedAt(c, clock),
                 image_urls |-> ImageUrls(c.imgs),
                 url        |-> <<"status", c.links[1]>>,
                 is_retweet |-> rt.is_retweet]
    IN  IF rt.is_retweet /\ rt.original_author # None
        THEN [original_author |-> rt.original_author] @@ base
        ELSE base

\* no recency test
TooOld_Never(created_at, start_time) == FALSE

\* the recency test of line 268
TooOld(created_at, start_time) == created_at < start_time

\* no dedup test
AlreadyProcessed_Never(tweet_id, processed_ids) == FALSE

\* the dedup test of line 224
AlreadyProcessed(tweet_id, processed_ids) == tweet_id \in processed_ids

\* no try around the loop body: a container that fails ends the batch, and the
\* containers after it are not read
ProcessContainer_Aborts(c, processed_ids, username, start_time, clock) ==
    LET skip == [processed |-> <<>>, processed_ids |-> processed_ids, kept |-> <<>>]
        stop == [processed |-> <<>>, processed_ids |-> processed_ids \cup {1, 2, 3, 4},
                 kept |-> <<>>]
    IN  IF c.fault \in {"stale_links", "stale_text", "error_text"} THEN stop
        ELSE IF c.links = <<>> THEN skip
        ELSE IF c.links[1] = 0 THEN skip
        ELSE IF AlreadyProcessed(c.links[1], processed_ids) THEN skip
        ELSE IF TooOld(CreatedAt(c, clock), start_time) THEN
             [skip EXCEPT !.processed_ids = @ \cup {c.links[1]}]
        ELSE [processed |-> <<TweetData(c, username, clock)>>,
              processed_ids |-> processed_ids \cup {c.links[1]},
              kept |-> <<c>>]

\* the id of a container is marked as seen only when its item is accepted
ProcessContainer_MarksLate(c, processed_ids, username, start_time, clock) ==
    LET skip == [processed |-> <<>>, processed_ids |-> processed_ids, kept |-> <<>>]
    IN  IF c.fault = "stale_links" THEN skip
        ELSE IF c.links = <<>> THEN skip
        ELSE IF c.links[1] = 0 THEN skip
        ELSE IF AlreadyProcessed(c.links[1], processed_ids) THEN skip
        ELSE IF c.fault \in {"stale_text", "error_text"} THEN skip
        ELSE IF TooOld(CreatedAt(c, clock), start_time) THEN skip
        ELSE [processed |-> <<TweetData(c, username, clock)>>,
              processed_ids |-> processed_ids \cup {c.links[1]},
              kept |-> <<c>>]

\* lines 210-307: one pass of the loop body over container c (kept is history: the
\* container an item was made from)
ProcessContainer(c, processed_ids, username, start_time, clock) ==
    LET skip == [processed |-> <<>>, processed_ids |-> processed_ids, kept |-> <<>>]
        seen == [processed |-> <<>>, processed_ids |-> processed_ids \cup {c.links[1]},
                 kept |-> <<>>]
    IN  IF c.fault = "stale_links" THEN skip
        ELSE IF c.links = <<>> THEN skip
        ELSE IF c.links[1] = 0 THEN skip
        ELSE IF AlreadyProcessed(c.links[1], processed_ids) THEN skip
        ELSE IF c.fault \in {"stale_text", "error_text"} THEN seen
        ELSE IF TooOld(CreatedAt(c, clock), start_time) THEN seen
        ELSE [processed |-> <<TweetData(c, username, clock)>>,
              processed_ids |-> processed_ids \cup {c.links[1]},
              kept |-> <<c>>]

\* lines 207-308: process_tweet_elements, with the processed_ids it closes over
RECURSIVE process_tweet_elements(_, _, _, _, _)
process_tweet_elements(elements, processed_ids, username, start_time, clock) ==
    IF elements = <<>>
    THEN [processed |-> <<>>, processed_ids |-> processed_ids, kept |-> <<>>]
    ELSE LET one  == ProcessContainer(Head(elements), processed_ids, username,
                                      start_time, clock)
             rest == process_tweet_elements(Tail(elements), one.processed_ids,
                                            username, start_time, clock)
         IN  [processed |-> one.processed \o rest.processed,
              processed_ids |-> rest.processed_ids,
              kept |-> one.kept \o rest.kept]

\* the batches the site can render from a set of containers
Batches(containers) ==
    UNION {[1..n -> containers] : n \in 0..MaxBatch}

(***************************************************************************)
(* The worlds the model is run in.                                         *)
(***************************************************************************)
Alice == <<"A", "l">>
Bob   == <<"b", "o">>
Carol == <<"C", "a">>

Container(links, author_links, text, time, imgs, fault) ==
    [links |-> links, author_links |-> author_links, text |-> text, time |-> time,
     imgs |-> imgs, fault |-> fault]

\* inside a one-hour window that starts at time 0, outside one that starts a tick later
Borderline == (TickSeconds \div 2) - HoursDelta(1)
Recent     == 0 - TickSeconds

\* a site with one post
SmallSite == {Container(<<1>>, <<>>, <<"x">>, <<Borderline>>, <<>>, "none")}

\* a site on which posts are re-rendered with other fields, reposted (by an account
\* whose handle has a capital, or one whose handle cannot be read), out of the
\* window, without a permalink, without a time, or fail while they are read
RichSite ==
    {Container(<<1>>, <<Alice, Alice>>, <<"x">>, <<Recent>>, <<>>, "none"),
     Container(<<1>>, <<Carol, Carol>>, <<"y">>, <<Recent>>, <<>>, "none"),
     Container(<<2>>, <<Carol, Carol>>, <<>>, <<Borderline>>, <<>>, "author_error"),
     Container(<<2>>, <<>>, <<>>, <<Recent>>, <<>>, "stale_text"),
     Container(<<>>, <<>>, <<"x">>, <<Recent>>, <<>>, "none"),
     Container(<<3, 1>>, <<Carol, <<"A", "L">>>>, <<>>, <<>>,
               <<[media |-> TRUE, name |-> <<"small">>], [media |-> FALSE, name |-> <<>>]>>,
               "none")}

\* two configured accounts, whose handles differ from their keys; two window sizes;
\* callers come back at any time; browsers can be left running
OrchestratorWorld ==
    [users |-> <<Alice, Bob>>, site |-> SmallSite, script |-> <<>>, hours |-> {1, 2},
     reruns |-> TRUE, leaks |-> MaxLeaks, callers |-> 1]

\* one account on the rich site, one window size, collected once; every browser
\* that starts is handed to the task
CollectorWorld ==
    [users |-> <<Alice>>, site |-> RichSite, script |-> <<>>, hours |-> {1},
     reruns |-> FALSE, leaks |-> 0, callers |-> 1]

\* the extractor of the test: post 1; then post 1 again, rendered with another text
\* and author, a post that fails while it is read, a container whose link has no
\* status number, and post 2; then nothing; a post 3 is ready should the collector
\* go on
TestScript ==
    << <<Container(<<1>>, <<>>, <<"x">>, <<Recent>>, <<>>, "none")>>,
       <<Container(<<1>>, <<Carol, Carol>>, <<"y">>, <<Recent>>, <<>>, "none"),
         Container(<<4>>, <<>>, <<"x">>, <<Recent>>, <<>>, "error_text"),
         Container(<<0>>, <<>>, <<"x">>, <<Recent>>, <<>>, "none"),
         Container(<<2>>, <<>>, <<"x">>, <<Recent + 1>>, <<>>, "none")>>,
       <<>>,
       <<Container(<<3>>, <<>>, <<"x">>, <<Recent + 1>>, <<>>, "none")>> >>

ScriptedWorld ==
    [users |-> <<Alice>>, site |-> {}, script |-> TestScript, hours |-> {1},
     reruns |-> FALSE, leaks |-> 0, callers |-> 1]

\* before every window of the model
LongAgo == 0 - HoursDelta(24)

\* a page that renders again what it rendered badly: post 1 fails while it is read
\* and post 2 shows a time long past; after the scroll both are rendered well, with
\* a post 3; then nothing
RerenderScript ==
    << <<Container(<<1>>, <<>>, <<"x">>, <<Recent>>, <<>>, "error_text"),
         Container(<<2>>, <<>>, <<"x">>, <<LongAgo>>, <<>>, "none")>>,
       <<Container(<<1>>, <<>>, <<"x">>, <<Recent>>, <<>>, "none"),
         Container(<<2>>, <<>>, <<"x">>, <<Recent>>, <<>>, "none"),
         Container(<<3>>, <<>>, <<"x">>, <<Recent>>, <<>>, "none")>>,
       <<>> >>

RerenderWorld ==
    [users |-> <<Alice>>, site |-> {}, script |-> RerenderScript, hours |-> {1},
     reruns |-> FALSE, leaks |-> 0, callers |-> 1]

\* a feed without end: every extraction finds a post not seen before, for longer than
\* the collector scrolls
EndlessScript ==
    [n \in 1..(max_scrolls + 2) |->
        <<Container(<<n>>, <<>>, <<"x">>, <<Recent>>, <<>>, "none")>>]

EndlessWorld ==
    [users |-> <<Alice>>, site |-> {}, script |-> EndlessScript, hours |-> {1},
     reruns |-> FALSE, leaks |-> 0, callers |-> 1]

\* two accounts, each with a feed without end
TwoEndlessWorld ==
    [users |-> <<Alice, Bob>>, site |-> {}, script |-> EndlessScript, hours |-> {1},
     reruns |-> FALSE, leaks |-> 0, callers |-> 1]

\* one account with no posts, and a caller who calls again and again; one browser
\* more than the pool has workers can be left running
LeakyWorld ==
    [users |-> <<Alice>>, site |-> {}, script |-> <<>>, hours |-> {1},
     reruns |-> TRUE, leaks |-> max_workers + 1, callers |-> 1]

\* one account, one window, and two callers that do not wait for one another: a call
\* can be made while another call is in progress
OverlapWorld ==
    [users |-> <<Alice>>, site |-> SmallSite, script |-> <<>>, hours |-> {1},
     reruns |-> TRUE, leaks |-> 0, callers |-> 2]

\* the cookie file: a cookie with a leading-dot domain, one without, one with no domain
CookieFile ==
    << [name |-> "auth_token", domain |-> <<".", "x">>],
       [name |-> "ct0",        domain |-> <<"x">>] >>

\* no activation of the formatter, of the sender, no Config
NoFormat == [pc |-> "none"]
NoSend == [pc |-> "none"]
NoConfig == [pc |-> "none"]

\* before any call has returned
NoCall == [hours |-> 0, start |-> 0, result |-> <<>>]

IdleCall ==
    [pc |-> "idle", hours |-> 0, current_time |-> 0, start_time |-> 0,
     tweets_by_user |-> <<>>, i |-> 0, ret |-> None, how |-> "", exc |-> "",
     acquired |-> 0, ended |-> <<>>]

NoTask ==
    [pc |-> "none", username |-> <<>>, driver |-> None, user_tweets |-> <<>>,
     processed_ids |-> {}, scroll_count |-> 0, yields |-> <<>>, result |-> <<>>,
     failure |-> "", exc |-> "", sources |-> <<>>]

\* loop.run_in_executor(self.executor, _get_user_tweets, username)
Submitted(username) == [NoTask EXCEPT !.pc = "queued", !.username = username]

ClientIn(w) ==
    /\ now = 0
    /\ world = w
    /\ cookies \in {None, CookieFile}
    /\ tweets_cache = <<>>
    /\ tweets_cache_time = <<>>
    /\ call = [k \in Callers |-> IdleCall]
    /\ task = [k \in Callers |-> NoTask]
    /\ live = {}
    /\ lastCall = NoCall
    /\ lastRun = <<>>

InitIn(w) ==
    /\ ClientIn(w)
    /\ formatter = NoFormat
    /\ webhook = NoSend
    /\ config = NoConfig

Init == InitIn(OrchestratorWorld)

InitCollect ==
    \/ InitIn(CollectorWorld) \/ InitIn(ScriptedWorld) \/ InitIn(EndlessWorld)
    \/ InitIn(RerenderWorld)

InitOverlap == InitIn(OverlapWorld)

InitLeaky == InitIn(LeakyWorld)

InitLive == InitIn(TwoEndlessWorld)

(***************************************************************************)
(* The clock: time passes at any moment.                                   *)
(***************************************************************************)
Tick ==
    /\ now < MaxTicks * TickSeconds
    /\ now' = now + TickSeconds
    /\ UNCHANGED <<aside, world, cookies, tweets_cache, tweets_cache_time, call, task, live,
                   lastCall, lastRun>>

(***************************************************************************)
(* get_recent_tweets, lines 147-368.                                       *)
(***************************************************************************)
\* the first task is that of the last account of the list
BeginCall_LastFirst(k, hours) ==
    LET cache_key    == CacheKey(hours)
        current_time == now
    IN  /\ call[k].pc = "idle"
        /\ IF CacheFresh(tweets_cache, tweets_cache_time, cache_key, current_time)
           THEN /\ call' = [call EXCEPT ![k] =
                      [IdleCall EXCEPT !.pc = "returned", !.hours = hours,
                                       !.current_time = current_time,
                                       !.how = "cache",
                                       !.ret = tweets_cache[cache_key]]]
                /\ UNCHANGED task
           ELSE /\ call' = [call EXCEPT ![k] =
                      [IdleCall EXCEPT !.pc = "await", !.hours = hours,
                                       !.current_time = current_time,
                                       !.start_time = now - HoursDelta(hours),
                                       !.tweets_by_user = EmptyByUser(world.users),
                                       !.i = 1]]
                /\ task' = [task EXCEPT ![k] = Submitted(world.users[Len(world.users)])]
        /\ UNCHANGED <<aside, now, world, cookies, tweets_cache, tweets_cache_time, live,
                       lastCall, lastRun>>

\* a hit stamps the entry it serves with the time of the hit
BeginCall_HitRefreshes(k, hours) ==
    LET cache_key    == CacheKey(hours)
        current_time == now
    IN  /\ call[k].pc = "idle"
        /\ IF CacheFresh(tweets_cache, tweets_cache_time, cache_key, current_time)
           THEN /\ call' = [call EXCEPT ![k] =
                      [IdleCall EXCEPT !.pc = "returned", !.hours = hours,
                                       !.current_time = current_time,
                                       !.how = "cache",
                                       !.ret = tweets_cache[cache_key]]]
                /\ tweets_cache_time' = Put(tweets_cache_time, cache_key, current_time)
                /\ UNCHANGED task
           ELSE /\ call' = [call EXCEPT ![k] =
                      [IdleCall EXCEPT !.pc = "await", !.hours = hours,
                                       !.current_time = current_time,
                                       !.start_time = now - HoursDelta(hours),
                                       !.tweets_by_user = EmptyByUser(world.users),
                                       !.i = 1]]
                /\ task' = [task EXCEPT ![k] = Submitted(world.users[1])]
                /\ UNCHANGED tweets_cache_time
        /\ UNCHANGED <<aside, now, world, cookies, tweets_cache, live, lastCall, lastRun>>

\* lines 148-157 and 348-357: up to the first await
BeginCall(k, hours) ==
    LET cache_key    == CacheKey(hours)
        current_time == now
    IN  /\ call[k].pc = "idle"
        /\ IF CacheFresh(tweets_cache, tweets_cache_time, cache_key, current_time)
           THEN /\ call' = [call EXCEPT ![k] =
                      [IdleCall EXCEPT !.pc = "returned", !.hours = hours,
                                       !.current_time = current_time,
                                       !.how = "cache",
                                       !.ret = tweets_cache[cache_key]]]
                /\ UNCHANGED task
           ELSE /\ call' = [call EXCEPT ![k] =
                      [IdleCall EXCEPT !.pc = "await", !.hours = hours,
                                       !.current_time = current_time,
                                       !.start_time = now - HoursDelta(hours),
                                       !.tweets_by_user = EmptyByUser(world.users),
                                       !.i = 1]]
                /\ task' = [task EXCEPT ![k] = Submitted(world.users[1])]
        /\ UNCHANGED <<aside, now, world, cookies, tweets_cache, tweets_cache_time, live,
                       lastCall, lastRun>>

\* a call, by one of the callers of the world, who is not in a call already
Begin(k) ==
    /\ k <= world.callers
    /\ call[k].pc = "idle"
    /\ \E hours \in world.hours :
          /\ \/ world.reruns
             \/ CacheKey(hours) \notin DOMAIN tweets_cache
             \/ CacheFresh(tweets_cache, tweets_cache_time, CacheKey(hours), now)
          /\ BeginCall(k, hours)

\* history: how the task of one account ended, and with which items
Ended(t) ==
    [username |-> t.username, failed |-> t.failure # "",
     items |-> IF t.failure # "" THEN <<>> ELSE t.user_tweets]

\* the call does not wait for its task: it goes on with whatever the task has
\* returned so far, and the task goes on too
Merge_NoWait(k) ==
    /\ call[k].pc = "await"
    /\ task[k].pc # "queued"
    /\ call' = [call EXCEPT ![k].pc = "sleep",
                    ![k].tweets_by_user =
                        Put(@, Lower(task[k].username), task[k].result),
                    ![k].ended = Append(@, Ended(task[k]))]
    /\ UNCHANGED <<aside, now, world, cookies, tweets_cache, tweets_cache_time, task, live,
                   lastCall, lastRun>>

\* a call that ends with an exception takes the entries of the cache with it
Merge_ErasesOnFailure(k) ==
    /\ call[k].pc = "await"
    /\ task[k].pc = "done"
    /\ IF task[k].exc # ""
       THEN /\ call' = [call EXCEPT ![k].pc = "raised", ![k].how = "raised",
                                    ![k].exc = task[k].exc]
            /\ tweets_cache' = <<>>
            /\ tweets_cache_time' = <<>>
       ELSE /\ call' = [call EXCEPT ![k].pc = "sleep",
                           ![k].tweets_by_user =
                               Put(@, Lower(task[k].username), task[k].result),
                           ![k].ended = Append(@, Ended(task[k]))]
            /\ UNCHANGED <<tweets_cache, tweets_cache_time>>
    /\ task' = [task EXCEPT ![k] = NoTask]
    /\ UNCHANGED <<aside, now, world, cookies, live, lastCall, lastRun>>

\* lines 353-362: the awaited task has ended
Merge(k) ==
    /\ call[k].pc = "await"
    /\ task[k].pc = "done"
    /\ IF task[k].exc # ""
       THEN call' = [call EXCEPT ![k].pc = "raised", ![k].how = "raised",
                                 ![k].exc = task[k].exc]
       ELSE call' = [call EXCEPT ![k].pc = "sleep",
                        ![k].tweets_by_user =
                            Put(@, Lower(task[k].username), task[k].result),
                        ![k].ended = Append(@, Ended(task[k]))]
    /\ task' = [task EXCEPT ![k] = NoTask]
    /\ UNCHANGED <<aside, now, world, cookies, tweets_cache, tweets_cache_time, live,
                   lastCall, lastRun>>

\* the result cache is written after each account, the time only at the end
AfterSleep_WritesEarly(k) ==
    /\ call[k].pc = "sleep"
    /\ tweets_cache' =
           Put(tweets_cache, CacheKey(call[k].hours), call[k].tweets_by_user)
    /\ IF call[k].i < Len(world.users)
       THEN /\ call' = [call EXCEPT ![k].pc = "await", ![k].i = @ + 1]
            /\ task' = [task EXCEPT ![k] = Submitted(world.users[call[k].i + 1])]
            /\ UNCHANGED tweets_cache_time
       ELSE /\ tweets_cache_time' =
                   Put(tweets_cache_time, CacheKey(call[k].hours), call[k].current_time)
            /\ call' = [call EXCEPT ![k].pc = "returned", ![k].how = "run",
                                    ![k].ret = call[k].tweets_by_user]
            /\ UNCHANGED task
    /\ UNCHANGED <<aside, now, world, cookies, live, lastCall, lastRun>>

\* an entry is not replaced by one with an older time
AfterSleep_KeepsNewer(k) ==
    /\ call[k].pc = "sleep"
    /\ IF call[k].i < Len(world.users)
       THEN /\ call' = [call EXCEPT ![k].pc = "await", ![k].i = @ + 1]
            /\ task' = [task EXCEPT ![k] = Submitted(world.users[call[k].i + 1])]
            /\ UNCHANGED <<tweets_cache, tweets_cache_time>>
       ELSE /\ IF /\ CacheKey(call[k].hours) \in DOMAIN tweets_cache_time
                  /\ tweets_cache_time[CacheKey(call[k].hours)] > call[k].current_time
               THEN UNCHANGED <<tweets_cache, tweets_cache_time>>
               ELSE /\ tweets_cache' =
                           Put(tweets_cache, CacheKey(call[k].hours),
                               call[k].tweets_by_user)
                    /\ tweets_cache_time' =
                           Put(tweets_cache_time, CacheKey(call[k].hours),
                               call[k].current_time)
            /\ call' = [call EXCEPT ![k].pc = "returned", ![k].how = "run",
                                    ![k].ret = call[k].tweets_by_user]
            /\ UNCHANGED task
    /\ UNCHANGED <<aside, now, world, cookies, live, lastCall, lastRun>>

\* a mapping without any item is returned and not stored
AfterSleep_SkipsEmpty(k) ==
    /\ call[k].pc = "sleep"
    /\ IF call[k].i < Len(world.users)
       THEN /\ call' = [call EXCEPT ![k].pc = "await", ![k].i = @ + 1]
            /\ task' = [task EXCEPT ![k] = Submitted(world.users[call[k].i + 1])]
            /\ UNCHANGED <<tweets_cache, tweets_cache_time>>
       ELSE /\ IF \A u \in DOMAIN call[k].tweets_by_user : call[k].tweets_by_user[u] = <<>>
               THEN UNCHANGED <<tweets_cache, tweets_cache_time>>
               ELSE /\ tweets_cache' =
                           Put(tweets_cache, CacheKey(call[k].hours),
                               call[k].tweets_by_user)
                    /\ tweets_cache_time' =
                           Put(tweets_cache_time, CacheKey(call[k].hours),
                               call[k].current_time)
            /\ call' = [call EXCEPT ![k].pc = "returned", ![k].how = "run",
                                    ![k].ret = call[k].tweets_by_user]
            /\ UNCHANGED task
    /\ UNCHANGED <<aside, now, world, cookies, live, lastCall, lastRun>>

\* the entry is stamped with the time at which it is written
AfterSleep_StampsEnd(k) ==
    /\ call[k].pc = "sleep"
    /\ IF call[k].i < Len(world.users)
       THEN /\ call' = [call EXCEPT ![k].pc = "await", ![k].i = @ + 1]
            /\ task' = [task EXCEPT ![k] = Submitted(world.users[call[k].i + 1])]
            /\ UNCHANGED <<tweets_cache, tweets_cache_time>>
       ELSE /\ tweets_cache' =
                   Put(tweets_cache, CacheKey(call[k].hours), call[k].tweets_by_user)
            /\ tweets_cache_time' = Put(tweets_cache_time, CacheKey(call[k].hours), now)
            /\ call' = [call EXCEPT ![k].pc = "returned", ![k].how = "run",
                                    ![k].ret = call[k].tweets_by_user]
            /\ UNCHANGED task
    /\ UNCHANGED <<aside, now, world, cookies, live, lastCall, lastRun>>

\* lines 362, 348-357 and 364-368: after asyncio.sleep(1)
AfterSleep(k) ==
    /\ call[k].pc = "sleep"
    /\ IF call[k].i < Len(world.users)
       THEN /\ call' = [call EXCEPT ![k].pc = "await", ![k].i = @ + 1]
            /\ task' = [task EXCEPT ![k] = Submitted(world.users[call[k].i + 1])]
            /\ UNCHANGED <<tweets_cache, tweets_cache_time>>
       ELSE /\ tweets_cache' =
                   Put(tweets_cache, CacheKey(call[k].hours), call[k].tweets_by_user)
            /\ tweets_cache_time' =
                   Put(tweets_cache_time, CacheKey(call[k].hours), call[k].current_time)
            /\ call' = [call EXCEPT ![k].pc = "returned", ![k].how = "run",
                                    ![k].ret = call[k].tweets_by_user]
            /\ UNCHANGED task
    /\ UNCHANGED <<aside, now, world, cookies, live, lastCall, lastRun>>

\* the caller takes the mapping, or the exception
Return(k) ==
    /\ call[k].pc \in {"returned", "raised"}
    /\ call' = [call EXCEPT ![k] = IdleCall]
    /\ lastCall' = IF call[k].pc = "returned"
                   THEN [hours |-> call[k].hours, start |-> call[k].current_time,
                         result |-> call[k].ret]
                   ELSE lastCall
    /\ lastRun' = IF call[k].how = "run"
                  THEN Put(lastRun, call[k].hours,
                           [start |-> call[k].current_time, result |-> call[k].ret])
                  ELSE lastRun
    /\ UNCHANGED <<aside, now, world, cookies, tweets_cache, tweets_cache_time, task, live>>

(***************************************************************************)
(* _get_user_tweets, lines 163-345, run by a worker of the pool.           *)
(***************************************************************************)
\* the handles some task holds in its variable driver
Held == {task[k].driver[1] : k \in {j \in Callers : task[j].driver # None}}

\* browser processes no task can reach any more
Leaked == live \ Held

\* a new browser gets an identity whether or not a live browser has it
NewHandle_Reused == CHOOSE h \in 1..(Cardinality(live) + 1) : TRUE

\* the identity of a newly created browser
NewHandle == CHOOSE h \in 1..(Cardinality(live) + 1) :
                 h \notin live /\ \A g \in 1..(h - 1) : g \in live

\* tasks a worker thread is running
Running == {k \in Callers : task[k].pc \notin {"none", "queued", "done"}}

\* a return inside the try block: control goes to the finally clause
ReturnFrom(t, result) == [t EXCEPT !.pc = "finally", !.result = result]

\* no except clause: the exception leaves the task
Fail_Escapes(t, failure) == [t EXCEPT !.pc = "finally", !.exc = failure]

\* the except clauses return what the task has accumulated
Fail_ReturnsPartial(t, failure) ==
    [ReturnFrom(t, t.user_tweets) EXCEPT !.failure = failure]

\* the returns of [] at lines 180, 196, 339 and 342: the session was not applied, no
\* container rendered, or an exception reached one of the except clauses
Fail(t, failure) == [ReturnFrom(t, <<>>) EXCEPT !.failure = failure]

\* ThreadPoolExecutor(max_workers=3): a worker takes the task
TaskStart(k) ==
    /\ task[k].pc = "queued"
    /\ Cardinality(Running) < max_workers
    /\ task' = [task EXCEPT ![k].pc = "setup"]
    /\ UNCHANGED <<aside, now, world, cookies, tweets_cache, tweets_cache_time, call, live,
                   lastCall, lastRun>>

\* lines 164-166 with _setup_driver, lines 78-95
Setup(k) ==
    /\ task[k].pc = "setup"
    /\ \E outcome \in {"ok", "raise_before_chrome", "raise_after_chrome"} :
          CASE outcome = "ok" ->
                 /\ task' = [task EXCEPT ![k].pc = "apply", ![k].driver = <<NewHandle>>]
                 /\ live' = live \cup {NewHandle}
                 /\ call' = [call EXCEPT ![k].acquired = @ + 1]
            [] outcome = "raise_before_chrome" ->
                 \* install() or webdriver.Chrome() throws: no browser
                 /\ task' = [task EXCEPT ![k] = Fail(@, "acquire")]
                 /\ UNCHANGED <<live, call>>
            [] outcome = "raise_after_chrome" ->
                 \* set_page_load_timeout throws: the browser runs, driver stays None
                 /\ Cardinality(Leaked) < world.leaks
                 /\ task' = [task EXCEPT ![k] = Fail(@, "acquire")]
                 /\ live' = live \cup {NewHandle}
                 /\ call' = [call EXCEPT ![k].acquired = @ + 1]
    /\ UNCHANGED <<aside, now, world, cookies, tweets_cache, tweets_cache_time,
                   lastCall, lastRun>>

\* lines 120-121: the domain of a cookie loses its leading dot, in place
StripDot(cookie) ==
    IF cookie.domain # None /\ Head(cookie.domain) = "."
    THEN [cookie EXCEPT !.domain = Tail(@)]
    ELSE cookie

\* the task goes on to the profile page whatever _apply_cookies returns
Apply_ResultIgnored(k) ==
    /\ task[k].pc = "apply"
    /\ cookies' = IF cookies = None THEN cookies
                  ELSE [i \in DOMAIN cookies |-> StripDot(cookies[i])]
    /\ task' = [task EXCEPT ![k].pc = "load"]
    /\ UNCHANGED <<aside, now, world, tweets_cache, tweets_cache_time, call, live,
                   lastCall, lastRun>>

\* lines 97-145, _apply_cookies, and its use at lines 169-180
Apply(k) ==
    /\ task[k].pc = "apply"
    /\ IF cookies = None
       THEN /\ task' = [task EXCEPT ![k] = Fail(@, "session")]
            /\ UNCHANGED cookies
       ELSE \E outcome \in {"ok", "get_raises", "refresh_raises", "no_marker"} :
               /\ cookies' = IF outcome = "get_raises" THEN cookies
                             ELSE [i \in DOMAIN cookies |-> StripDot(cookies[i])]
               /\ task' = IF outcome = "ok"
                          THEN [task EXCEPT ![k].pc = "load"]
                          ELSE [task EXCEPT ![k] = Fail(@, "session")]
    /\ UNCHANGED <<aside, now, world, tweets_cache, tweets_cache_time, call, live,
                   lastCall, lastRun>>

\* no except clause around the wait: its timeout leaves the task as an exception
Load_TimeoutEscapes(k) ==
    /\ task[k].pc = "load"
    /\ \E outcome \in {"ok", "get_timeout", "get_raises", "no_container", "wait_raises"} :
          task' = IF outcome = "ok"
                  THEN [task EXCEPT ![k].pc = "extract"]
                  ELSE IF outcome = "no_container"
                  THEN [task EXCEPT ![k] = Fail_Escapes(@, "load")]
                  ELSE [task EXCEPT ![k] = Fail(@, "load")]
    /\ UNCHANGED <<aside, now, world, cookies, tweets_cache, tweets_cache_time, call, live,
                   lastCall, lastRun>>

\* lines 182-196: load the profile page and wait for a container
Load(k) ==
    /\ task[k].pc = "load"
    /\ \E outcome \in {"ok", "get_timeout", "get_raises", "no_container", "wait_raises"} :
          task' = IF outcome = "ok"
                  THEN [task EXCEPT ![k].pc = "extract"]
                  ELSE [task EXCEPT ![k] = Fail(@, "load")]
    /\ UNCHANGED <<aside, now, world, cookies, tweets_cache, tweets_cache_time, call, live,
                   lastCall, lastRun>>

\* what find_elements can return at the next extraction of task t: anything the site
\* has, or, when the site follows a script, the next batch of the script
Rendered(t) ==
    IF world.script = <<>> THEN Batches(world.site)
    ELSE {IF Len(t.yields) < Len(world.script) THEN world.script[Len(t.yields) + 1]
          ELSE <<>>}

\* the collector returns at once when the initial extraction accepts nothing
Extract_EndsWhenIdle(k) ==
    /\ task[k].pc = "extract"
    /\ \/ /\ task' = [task EXCEPT ![k] = Fail(@, "extract")]
          /\ UNCHANGED call
       \/ \E elements \in Rendered(task[k]) :
             LET initial == process_tweet_elements(elements, {}, task[k].username,
                                                   call[k].start_time, now)
                 next == [task[k] EXCEPT !.pc = "scroll",
                                         !.user_tweets = initial.processed,
                                         !.processed_ids = initial.processed_ids,
                                         !.yields = <<Len(initial.processed)>>,
                                         !.sources = initial.kept]
             IN  /\ task' = [task EXCEPT ![k] =
                        IF Len(initial.processed) = 0
                        THEN ReturnFrom(next, next.user_tweets)
                        ELSE next]
                 /\ UNCHANGED call
    /\ UNCHANGED <<aside, now, world, cookies, tweets_cache, tweets_cache_time, live,
                   lastCall, lastRun>>

\* lines 199-313: the initial extraction
Extract(k) ==
    /\ task[k].pc = "extract"
    /\ \/ /\ task' = [task EXCEPT ![k] = Fail(@, "extract")]   \* find_elements throws
          /\ UNCHANGED call
       \/ \E elements \in Rendered(task[k]) :
             LET initial == process_tweet_elements(elements, {}, task[k].username,
                                                   call[k].start_time, now)
             IN  /\ task' = [task EXCEPT ![k].pc = "scroll",
                                ![k].user_tweets = initial.processed,
                                ![k].processed_ids = initial.processed_ids,
                                ![k].yields = <<Len(initial.processed)>>,
                                ![k].sources = initial.kept]
                 /\ UNCHANGED call
    /\ UNCHANGED <<aside, now, world, cookies, tweets_cache, tweets_cache_time, live,
                   lastCall, lastRun>>

\* no cap on the number of scrolls
LoopEnds_NoCap(new_tweets, scroll_count) == Len(new_tweets) = 0

\* no early exit from the loop
LoopEnds_CapOnly(new_tweets, scroll_count) == scroll_count + 1 >= max_scrolls

\* the test that ends the scroll loop, lines 316 and 332
LoopEnds(new_tweets, scroll_count) ==
    Len(new_tweets) = 0 \/ scroll_count + 1 >= max_scrolls

\* the items of a scroll are put in front of those collected before
Scroll_Prepends(k) ==
    /\ task[k].pc = "scroll"
    /\ \/ /\ task' = [task EXCEPT ![k] = Fail(@, "scroll")]
          /\ UNCHANGED call
       \/ \E elements \in Rendered(task[k]) :
             LET new  == process_tweet_elements(elements, task[k].processed_ids,
                                                task[k].username, call[k].start_time, now)
                 next == [task[k] EXCEPT !.user_tweets = new.processed \o @,
                                         !.processed_ids = new.processed_ids,
                                         !.scroll_count = @ + 1,
                                         !.yields = Append(@, Len(new.processed)),
                                         !.sources = new.kept \o @]
             IN  /\ task' = [task EXCEPT ![k] =
                        IF LoopEnds(new.processed, task[k].scroll_count)
                        THEN ReturnFrom(next, next.user_tweets)
                        ELSE next]
                 /\ UNCHANGED call
    /\ UNCHANGED <<aside, now, world, cookies, tweets_cache, tweets_cache_time, live,
                   lastCall, lastRun>>

\* lines 316-336: one iteration of the scroll loop
Scroll(k) ==
    /\ task[k].pc = "scroll"
    /\ \/ /\ task' = [task EXCEPT ![k] = Fail(@, "scroll")]   \* execute_script or find_elements throws
          /\ UNCHANGED call
       \/ \E elements \in Rendered(task[k]) :
             LET new  == process_tweet_elements(elements, task[k].processed_ids,
                                                task[k].username, call[k].start_time, now)
                 next == [task[k] EXCEPT !.user_tweets = @ \o new.processed,
                                         !.processed_ids = new.processed_ids,
                                         !.scroll_count = @ + 1,
                                         !.yields = Append(@, Len(new.processed)),
                                         !.sources = @ \o new.kept]
             IN  /\ task' = [task EXCEPT ![k] =
                        IF LoopEnds(new.processed, task[k].scroll_count)
                        THEN ReturnFrom(next, next.user_tweets)
                        ELSE next]
                 /\ UNCHANGED call
    /\ UNCHANGED <<aside, now, world, cookies, tweets_cache, tweets_cache_time, live,
                   lastCall, lastRun>>

\* driver.quit() does not come back
Finally_Hangs(k) ==
    /\ task[k].pc = "finally"
    /\ UNCHANGED vars

\* lines 343-345: finally: if driver: driver.quit()
Finally(k) ==
    /\ task[k].pc = "finally"
    /\ IF task[k].driver = None
       THEN /\ task' = [task EXCEPT ![k].pc = "done"]
            /\ UNCHANGED live
       ELSE \E outcome \in {"ok", "raise_quit", "raise_not_quit"} :
               CASE outcome = "ok" ->
                      /\ task' = [task EXCEPT ![k].pc = "done", ![k].driver = None]
                      /\ live' = live \ {task[k].driver[1]}
                 [] outcome = "raise_quit" ->
                      /\ task' = [task EXCEPT ![k].pc = "done", ![k].driver = None,
                                              ![k].exc = "quit"]
                      /\ live' = live \ {task[k].driver[1]}
                 [] outcome = "raise_not_quit" ->
                      /\ Cardinality(Leaked) < world.leaks
                      /\ task' = [task EXCEPT ![k].pc = "done", ![k].driver = None,
                                              ![k].exc = "quit"]
                      /\ UNCHANGED live
    /\ UNCHANGED <<aside, now, world, cookies, tweets_cache, tweets_cache_time, call,
                   lastCall, lastRun>>

Next ==
    \/ Tick
    \/ \E k \in Callers :
          \/ Begin(k)
          \/ Merge(k)
          \/ AfterSleep(k)
          \/ Return(k)
          \/ TaskStart(k)
          \/ Setup(k)
          \/ Apply(k)
          \/ Load(k)
          \/ Extract(k)
          \/ Scroll(k)
          \/ Finally(k)

Spec == Init /\ [][Next]_vars

\* the collector on its own
SpecCollect == InitCollect /\ [][Next]_vars

\* calls that overlap
SpecOverlap == InitOverlap /\ [][Next]_vars

\* calls that leave browsers behind
SpecLeaky == InitLeaky /\ [][Next]_vars

\* the event loop resumes a coroutine that can go on, the pool runs a task that is
\* submitted, and every browser operation of a task returns, times out or raises
Fairness ==
    \A k \in Callers :
        /\ WF_vars(Merge(k)) /\ WF_vars(AfterSleep(k))
        /\ WF_vars(TaskStart(k)) /\ WF_vars(Setup(k)) /\ WF_vars(Apply(k))
        /\ WF_vars(Load(k)) /\ WF_vars(Extract(k)) /\ WF_vars(Scroll(k))
        /\ WF_vars(Finally(k))

\* runs that are let run
SpecLive == InitLive /\ [][Next]_vars /\ Fairness

(***************************************************************************)
(* Properties.                                                             *)
(***************************************************************************)
Keys == {Lower(u) : u \in Range(world.users)}

Returned(k) == call[k].pc = "returned"

\* the items of a mapping
ItemsOf(m) == UNION {Range(m[u]) : u \in DOMAIN m}

\* the start of the window of call k
WindowStart(k) == call[k].current_time - HoursDelta(call[k].hours)

\* C1, as stated: a call that follows, within 5 minutes, a call with the same window
\* returns the mapping that call returned and acquires no browser.
C1_AsStated ==
    \A k \in Callers :
        (/\ Returned(k)
         /\ lastCall.hours = call[k].hours
         /\ call[k].current_time - lastCall.start < 5 * 60)
        => (/\ call[k].ret = lastCall.result
            /\ call[k].how = "cache"
            /\ call[k].acquired = 0)

\* C1, amended: a call that starts less than 5 minutes after the start of the last
\* run that collected for the same window (and has returned) returns the mapping of
\* that run, from the cache, and acquires no browser.
C1_ServedFromFreshRun ==
    \A k \in Callers :
        (/\ Returned(k)
         /\ call[k].hours \in DOMAIN lastRun
         /\ call[k].current_time - lastRun[call[k].hours].start < 5 * 60)
        => (/\ call[k].ret = lastRun[call[k].hours].result
            /\ call[k].how = "cache"
            /\ call[k].acquired = 0
            /\ task[k].pc = "none")

\* a call served, some time after the run, a mapping that has items
C1_Witness ==
    \E k \in Callers :
        /\ Returned(k) /\ call[k].how = "cache"
        /\ call[k].hours \in DOMAIN lastRun
        /\ call[k].current_time > lastRun[call[k].hours].start
        /\ call[k].ret = lastRun[call[k].hours].result
        /\ ItemsOf(call[k].ret) # {}

\* C2: the failure of one account (its session is not applied, its page or its
\* containers do not come, an exception is thrown while it is collected) gives that
\* account the empty list and nothing else: no such failure ends the call, the
\* accounts merged so far keep what their tasks collected, and the mapping returned
\* has every account.
C2_FailureStaysLocal ==
    \A k \in Callers :
        /\ call[k].pc = "raised" => call[k].exc = "quit"
        /\ (call[k].pc \in {"await", "sleep"} \/ (Returned(k) /\ call[k].how = "run"))
           => LET m == IF Returned(k) THEN call[k].ret ELSE call[k].tweets_by_user
              IN  /\ DOMAIN m = Keys
                  /\ \A n \in 1..Len(call[k].ended) :
                        /\ call[k].ended[n].username = world.users[n]
                        /\ m[Lower(world.users[n])] =
                              IF call[k].ended[n].failed THEN <<>>
                              ELSE call[k].ended[n].items
                  /\ Returned(k) => Len(call[k].ended) = Len(world.users)

\* the first account failed, the second was collected and has items
C2_Witness ==
    \E k \in Callers :
        /\ Returned(k) /\ call[k].how = "run"
        /\ call[k].ended[1].failed
        /\ ~call[k].ended[2].failed
        /\ call[k].ret[Lower(world.users[1])] = <<>>
        /\ call[k].ret[Lower(world.users[2])] # <<>>

\* C3: every browser started for an account is quit before the account's task ends,
\* so that no browser is running when no task is.
C3_EveryHandleReleased ==
    (\A k \in Callers : task[k].pc \in {"none", "queued", "done"}) => live = {}

\* C4, as stated: every item of a returned mapping is inside the window of the call
\* that returns it.
C4_AsStated ==
    \A k \in Callers :
        Returned(k) => \A item \in ItemsOf(call[k].ret) : item.created_at >= WindowStart(k)

\* C4, amended: every item a collecting call returns is inside that call's window;
\* every item a call is served from the cache is inside the window of the run that
\* collected it, hence less than 5 minutes outside the window of the call served.
C4_InsideCollectingWindow ==
    \A k \in Callers :
        Returned(k) =>
            \A item \in ItemsOf(call[k].ret) :
                IF call[k].how = "run" THEN item.created_at >= WindowStart(k)
                ELSE /\ call[k].hours \in DOMAIN lastRun
                     /\ item.created_at >= lastRun[call[k].hours].start
                                              - HoursDelta(call[k].hours)
                     /\ item.created_at > WindowStart(k) - 5 * 60

\* a call is served an item that is older than its own window
C4_Witness ==
    \E k \in Callers :
        /\ Returned(k) /\ call[k].how = "cache"
        /\ \E item \in ItemsOf(call[k].ret) : item.created_at < WindowStart(k)

DistinctIds(tweets) ==
    \A i, j \in DOMAIN tweets : i # j => tweets[i].id # tweets[j].id

\* C5: the ids of the items of one account are pairwise distinct, in what the task
\* has accumulated, in what it returns and in the mapping, whatever was rendered.
C5_UniqueIds ==
    \A k \in Callers :
        /\ DistinctIds(task[k].user_tweets)
        /\ DistinctIds(task[k].result)
        /\ \A u \in DOMAIN call[k].tweets_by_user : DistinctIds(call[k].tweets_by_user[u])
        /\ \A u \in DOMAIN call[k].ret : DistinctIds(call[k].ret[u])

\* post 1 was rendered twice, the second time with another text: the first is kept
C5_Witness ==
    \E k \in Callers :
        /\ world.script = TestScript
        /\ task[k].pc = "done" /\ task[k].failure = ""
        /\ Len(task[k].result) = 2
        /\ task[k].result[1].id = 1 /\ task[k].result[1].text = "x"
        /\ task[k].result[2].id = 2

\* C6: the mapping returned has the lower-cased handle of every configured account
\* as its keys, and no other key, and maps each to a sequence.
C6_EveryAccountKey ==
    \A k \in Callers :
        Returned(k) =>
            /\ DOMAIN call[k].ret = Keys
            /\ \A u \in Keys : DOMAIN call[k].ret[u] = 1..Len(call[k].ret[u])

\* one account failed, the other has no content: both are there, and empty
C6_Witness ==
    \E k \in Callers :
        /\ Returned(k) /\ call[k].how = "run"
        /\ call[k].ended[1].failed
        /\ ~call[k].ended[2].failed
        /\ \A u \in Keys : call[k].ret[u] = <<>>
        /\ Keys # Range(world.users)

\* the task ended by the return of line 336
NormalEnd(t) == t.pc \in {"finally", "done"} /\ t.failure = "" /\ t.yields # <<>>

\* C7: the scroll loop goes on only while no scroll has yielded nothing, and the
\* collector ends at the first scroll that yields nothing (or at the cap); the number
\* of extractions is then the position of that scroll.  On the batches of the test it
\* returns posts 1 and 2 after 3 extractions.
C7_StopsAtFirstEmptyScroll ==
    \A k \in Callers :
        LET t == task[k]
            n == Len(t.yields)
        IN  /\ t.pc = "scroll" => \A i \in 2..n : t.yields[i] > 0
            /\ NormalEnd(t) =>
                  /\ n >= 2
                  /\ n = t.scroll_count + 1
                  /\ \A i \in 2..(n - 1) : t.yields[i] > 0
                  /\ t.yields[n] = 0 \/ n = max_scrolls + 1
                  /\ t.result = t.user_tweets
            /\ (world.script = TestScript /\ NormalEnd(t)) =>
                  /\ n = 3
                  /\ [i \in DOMAIN t.result |-> t.result[i].id] = <<1, 2>>

\* the run of the test
C7_Witness ==
    \E k \in Callers :
        /\ world.script = TestScript
        /\ NormalEnd(task[k])
        /\ task[k].yields = <<1, 1, 0>>

\* C8: a call is served from the cache only what a run for its own window collected;
\* and a call leaves the entries of the other windows as the runs for those windows
\* wrote them.
C8_WindowsApart ==
    /\ \A k \in Callers :
          (Returned(k) /\ call[k].how = "cache") =>
              /\ call[k].hours \in DOMAIN lastRun
              /\ call[k].ret = lastRun[call[k].hours].result
    /\ \A hours \in world.hours :
          (\A k \in Callers : ~(Returned(k) /\ call[k].how = "run" /\ call[k].hours = hours))
          => IF hours \in DOMAIN lastRun
             THEN /\ CacheKey(hours) \in DOMAIN tweets_cache
                  /\ tweets_cache[CacheKey(hours)] = lastRun[hours].result
                  /\ tweets_cache_time[CacheKey(hours)] = lastRun[hours].start
             ELSE CacheKey(hours) \notin DOMAIN tweets_cache

\* a call has collected although another window has a fresh entry, with other content
C8_Witness ==
    \E k \in Callers : \E other \in world.hours \ {call[k].hours} :
        /\ Returned(k) /\ call[k].how = "run"
        /\ CacheKey(other) \in DOMAIN tweets_cache
        /\ call[k].current_time - tweets_cache_time[CacheKey(other)] < 5 * 60
        /\ tweets_cache[CacheKey(other)] # call[k].ret

\* C9: a call is served from the cache only if there is an entry for its window and
\* the entry is less than 300 seconds older than the call; it is then that entry.
C9_HitOnlyWhenFresh ==
    \A k \in Callers :
        (Returned(k) /\ call[k].how = "cache") =>
            /\ CacheKey(call[k].hours) \in DOMAIN tweets_cache
            /\ CacheKey(call[k].hours) \in DOMAIN tweets_cache_time
            /\ call[k].current_time - tweets_cache_time[CacheKey(call[k].hours)] < 300
            /\ call[k].ret = tweets_cache[CacheKey(call[k].hours)]

\* a call collects again: the entry of its window is exactly 300 seconds old
C9_Witness ==
    \E k \in Callers :
        /\ call[k].pc = "await"
        /\ CacheKey(call[k].hours) \in DOMAIN tweets_cache_time
        /\ call[k].current_time - tweets_cache_time[CacheKey(call[k].hours)] = 300

\* C10: an exception reaches the caller of get_recent_tweets only when a browser
\* could not be acquired; every other failure, the teardown of the browser
\* included, leaves the call returning a mapping.
C10_OnlyAcquisitionPropagates ==
    \A k \in Callers : call[k].pc = "raised" => call[k].exc = "acquire"

\* C11: the session loaded when the client was constructed is never mutated: no
\* step of any apply-session call or run changes a cookie, its domain included.
C11_SessionNeverMutated == [][cookies' = cookies]_vars

\* a step of caller k that writes the entry of its window: both caches, at once, with
\* the mapping and the start time of a run all of whose accounts have been merged
WritesWholeEntry(k) ==
    LET key == CacheKey(call[k].hours)
    IN  /\ call[k].pc = "sleep"
        /\ Len(call[k].ended) = Len(world.users)
        /\ task[k].pc = "none"
        /\ tweets_cache' = Put(tweets_cache, key, call[k].tweets_by_user)
        /\ tweets_cache_time' = Put(tweets_cache_time, key, call[k].current_time)

\* C12: the two caches have the same keys in every state, every stored mapping has
\* every configured account as a key, and the caches change only in a step that
\* writes one whole entry, mapping and time together, after the task of every
\* account of that run has ended and been merged.
C12_NeverPartiallyUpdated ==
    /\ [](/\ DOMAIN tweets_cache = DOMAIN tweets_cache_time
          /\ \A key \in DOMAIN tweets_cache : Keys \subseteq DOMAIN tweets_cache[key])
    /\ [][<<tweets_cache, tweets_cache_time>>' # <<tweets_cache, tweets_cache_time>>
            => \E k \in Callers : WritesWholeEntry(k)]_vars

\* a run for a window that has an entry is half way: the entry is still the old one
C12_Witness ==
    \E k \in Callers :
        /\ call[k].pc = "sleep"
        /\ Len(call[k].ended) = 1
        /\ CacheKey(call[k].hours) \in DOMAIN tweets_cache
        /\ tweets_cache[CacheKey(call[k].hours)] # call[k].tweets_by_user
        /\ tweets_cache_time[CacheKey(call[k].hours)] < call[k].current_time

\* the step in which the run of caller k ends in failure (the exception of its task
\* comes out of the await), or in which that exception is handed to the caller
RunFails(k) ==
    \/ call[k].pc = "await" /\ call'[k].pc = "raised"
    \/ call[k].pc = "raised" /\ call'[k].pc = "idle"

\* C13: a run that ends in failure, that is with an exception rather than a mapping,
\* leaves every entry of the cache and its time as they were, the fresh entry of its
\* own window included.
C13_FailedRunKeepsEntry ==
    [][\A k \in Callers :
          RunFails(k) => /\ tweets_cache' = tweets_cache
                         /\ tweets_cache_time' = tweets_cache_time]_vars

\* a run has failed while the entry of its window, written by a run that overlapped
\* it, is fresh and has items
C13_Witness ==
    \E k \in Callers :
        /\ call[k].pc = "raised"
        /\ CacheFresh(tweets_cache, tweets_cache_time, CacheKey(call[k].hours), now)
        /\ ItemsOf(tweets_cache[CacheKey(call[k].hours)]) # {}

\* the author handle container c renders: the last segment of the second link under
\* User-Name, <<>> when there is no such link
RenderedAuthor(c) == IF Len(c.author_links) >= 2 THEN c.author_links[2] ELSE <<>>

\* container c renders an author other than the account queried
ByAnother(c, username) ==
    RenderedAuthor(c) # <<>> /\ Lower(RenderedAuthor(c)) # Lower(username)

C15_NoAuthorUnlessRepost ==
    \A k \in Callers :
        /\ \A item \in Range(task[k].user_tweets) \cup ItemsOf(call[k].ret) :
              ~item.is_retweet => "original_author" \notin DOMAIN item
        /\ \A i \in DOMAIN task[k].user_tweets :
              (/\ RenderedAuthor(task[k].sources[i]) # <<>>
               /\ Lower(RenderedAuthor(task[k].sources[i])) = Lower(task[k].username))
              => /\ ~task[k].user_tweets[i].is_retweet
                 /\ "original_author" \notin DOMAIN task[k].user_tweets[i]

\* a mapping is returned with an item of a container that renders the account
\* queried in other letter case: it is no repost
C15_Witness ==
    \E k \in Callers : \E i \in DOMAIN task[k].sources :
        /\ task[k].pc = "done" /\ task[k].result = task[k].user_tweets
        /\ RenderedAuthor(task[k].sources[i]) # task[k].username
        /\ Lower(RenderedAuthor(task[k].sources[i])) = Lower(task[k].username)
        /\ ~task[k].result[i].is_retweet
        /\ DOMAIN task[k].result[i] =
              {"id", "text", "created_at", "image_urls", "url", "is_retweet"}

\* C16: a task leaves _apply_cookies either for the profile page, and then there are
\* cookies, or, the session not applied, for the finally clause with the empty list
\* as its result and no exception; such a task never loads the page nor extracts,
\* and the empty list is what is merged for its account.  Without cookies no task
\* gets as far as the page, and every account of a mapping that is returned has the
\* empty list.
C16_SessionNotApplied ==
    /\ [](\A k \in Callers :
             /\ task[k].failure = "session" =>
                   /\ task[k].pc \in {"finally", "done"}
                   /\ task[k].result = <<>>
                   /\ task[k].user_tweets = <<>>
                   /\ task[k].yields = <<>>
                   /\ task[k].exc # "" => (task[k].exc = "quit" /\ task[k].pc = "done")
             /\ cookies = None =>
                   /\ task[k].pc \notin {"load", "extract", "scroll"}
                   /\ task[k].yields = <<>>
                   /\ (Returned(k) /\ call[k].how = "run") =>
                         \A u \in Keys : call[k].ret[u] = <<>>)
    /\ [][\A k \in Callers :
             /\ (task[k].pc = "apply" /\ task'[k] # task[k]) =>
                   \/ task'[k].pc = "load" /\ cookies # None
                   \/ /\ task'[k].pc = "finally"
                      /\ task'[k].failure = "session"
                      /\ task'[k].exc = ""
                      /\ task'[k].result = <<>>
             /\ (task[k].failure = "session" /\ call[k].pc = "await"
                   /\ call'[k].pc = "sleep") =>
                   call'[k].tweets_by_user[Lower(task[k].username)] = <<>>]_vars

\* there are cookies, the first account has been collected and has items, and the
\* session was not applied for the second
C16_Witness ==
    \E k \in Callers :
        /\ cookies # None
        /\ call[k].pc = "await" /\ call[k].i = 2
        /\ call[k].tweets_by_user[Lower(world.users[1])] # <<>>
        /\ task[k].pc = "done" /\ task[k].failure = "session" /\ task[k].exc = ""

\* C17: a task scrolls at most max_scrolls times and so extracts at most
\* max_scrolls + 1 times, whatever is rendered; at the cap it is out of the loop.
C17_ScrollsCapped ==
    \A k \in Callers :
        /\ task[k].scroll_count <= max_scrolls
        /\ Len(task[k].yields) <= max_scrolls + 1
        /\ task[k].pc = "scroll" => task[k].scroll_count < max_scrolls

\* on the feed without end the task has returned after max_scrolls scrolls, each of
\* which found a new post
C17_Witness ==
    \E k \in Callers :
        /\ world.script = EndlessScript
        /\ NormalEnd(task[k])
        /\ task[k].scroll_count = max_scrolls
        /\ Len(task[k].yields) = max_scrolls + 1
        /\ \A i \in DOMAIN task[k].yields : task[k].yields[i] > 0
        /\ Len(task[k].result) = max_scrolls + 1

\* C18: a task leaves the wait for the first container either for the first
\* extraction or, no container having rendered (or the page not having loaded), for
\* the finally clause with the empty list as its result and no exception; such a
\* task has not extracted and has not scrolled, the empty list is what is merged for
\* its account, and the call goes on.
C18_NoContainerNoError ==
    /\ [](\A k \in Callers :
             task[k].failure = "load" =>
                 /\ task[k].pc \in {"finally", "done"}
                 /\ task[k].result = <<>>
                 /\ task[k].yields = <<>>
                 /\ task[k].scroll_count = 0
                 /\ task[k].exc # "" => (task[k].exc = "quit" /\ task[k].pc = "done"))
    /\ [][\A k \in Callers :
             /\ (task[k].pc = "load" /\ task'[k] # task[k]) =>
                   \/ task'[k].pc = "extract"
                   \/ /\ task'[k].pc = "finally"
                      /\ task'[k].failure = "load"
                      /\ task'[k].exc = ""
                      /\ task'[k].result = <<>>
             /\ (task[k].failure = "load" /\ task[k].exc = "" /\ call[k].pc = "await"
                   /\ call'[k] # call[k]) =>
                   /\ call'[k].pc = "sleep"
                   /\ call'[k].tweets_by_user[Lower(task[k].username)] = <<>>]_vars

\* the first account of a call has failed and was merged as the empty list; for the
\* second nothing rendered, and its task has ended without an exception
C18_Witness ==
    \E k \in Callers :
        /\ call[k].pc = "await" /\ call[k].i = 2
        /\ call[k].ended = <<[username |-> world.users[1], failed |-> TRUE, items |-> <<>>]>>
        /\ call[k].tweets_by_user[Lower(world.users[1])] = <<>>
        /\ task[k].pc = "done" /\ task[k].failure = "load" /\ task[k].exc = ""

\* C19: the task a run waits for is that of the i-th account of the list, it was
\* dispatched when the tasks of the i-1 accounts before it had ended and been
\* merged, in the order of the list; and the mapping a run returns gives every
\* account what its own task returned.
C19_ListedOrder ==
    \A k \in Callers :
        (call[k].pc \in {"await", "sleep"} \/ (Returned(k) /\ call[k].how = "run")) =>
            /\ call[k].i \in 1..Len(world.users)
            /\ Len(call[k].ended) = IF call[k].pc = "await" THEN call[k].i - 1
                                    ELSE call[k].i
            /\ [n \in DOMAIN call[k].ended |-> call[k].ended[n].username]
                  = SubSeq(world.users, 1, Len(call[k].ended))
            /\ call[k].pc = "await" =>
                  /\ task[k].pc # "none"
                  /\ task[k].username = world.users[call[k].i]
            /\ call[k].pc = "sleep" => task[k].pc = "none"
            /\ Returned(k) =>
                  call[k].ret = [u \in Keys |->
                      LET n == CHOOSE n \in DOMAIN world.users : Lower(world.users[n]) = u
                      IN  call[k].ended[n].items]

\* a run has returned, some time after it started: the first account has items, the
\* second has none
C19_Witness ==
    \E k \in Callers :
        /\ Returned(k) /\ call[k].how = "run"
        /\ now > call[k].current_time
        /\ call[k].ended[1].items # <<>>
        /\ call[k].ended[2].items = <<>>
        /\ call[k].ret[Lower(world.users[1])] = call[k].ended[1].items

\* C20: at most max_workers tasks are run by the pool at a time, and at most
\* max_workers browsers are live.
C20_AtMostThreeLive ==
    /\ Cardinality(Running) <= max_workers
    /\ Cardinality(live) <= max_workers

\* C21: no two tasks hold the same browser, and a browser a task holds is live; a
\* task comes to hold a browser only by starting it, a new one, in its own
\* _setup_driver, holds that one until its own finally clause, and a browser stops
\* being live only in the finally clause of the task that holds it.
C21_HandleOwnedByAcquirer ==
    /\ [](\A j, k \in Callers :
             /\ task[k].driver # None => task[k].driver[1] \in live
             /\ (j # k /\ task[j].driver # None /\ task[k].driver # None)
                   => task[j].driver # task[k].driver)
    /\ [][/\ \A k \in Callers :
                task'[k].driver # task[k].driver =>
                    \/ /\ task[k].pc = "setup" /\ task[k].driver = None
                       /\ task'[k].driver[1] \notin live
                       /\ \A j \in Callers \ {k} : task'[j] = task[j]
                    \/ /\ task[k].pc = "finally" /\ task'[k].driver = None
                       /\ \A j \in Callers \ {k} : task'[j] = task[j]
          /\ \A h \in live \ live' :
                \E k \in Callers : /\ task[k].driver = <<h>>
                                   /\ task[k].pc = "finally"
                                   /\ task'[k].pc = "done"]_vars

\* the tasks of two overlapping runs each hold a browser of their own; the task that
\* started its browser second is about to release it, the other still scrolls
C21_Witness ==
    /\ task[1].driver = <<1>> /\ task[1].pc = "scroll"
    /\ task[2].driver = <<2>> /\ task[2].pc = "finally"
    /\ live = {1, 2}

\* C22: while a run waits, exactly one task of it exists, that of the account the
\* run has come to, and the accounts before it have all been merged; between two
\* accounts, and once the run has ended, no task of it exists and no browser is held
\* for it.
C22_OneTaskInFlight ==
    \A k \in Callers :
        /\ call[k].pc = "await" =>
              /\ task[k].pc # "none"
              /\ task[k].username = world.users[call[k].i]
              /\ Len(call[k].ended) = call[k].i - 1
        /\ call[k].pc # "await" =>
              /\ task[k] = NoTask
              /\ \A j \in Callers : task[j].driver # None => call[j].pc = "await"
        /\ task[k].pc \in {"none", "queued", "setup", "done"} => task[k].driver = None

\* the second account of a run is being collected, with the one browser the run
\* holds; the first has been merged, with its items
C22_Witness ==
    \E k \in Callers :
        /\ call[k].pc = "await" /\ call[k].i = 2
        /\ Len(call[k].ended) = 1 /\ call[k].ended[1].items # <<>>
        /\ task[k].pc = "scroll" /\ task[k].username = world.users[2]
        /\ Held = {task[k].driver[1]}
        /\ Leaked = {}

\* the containers of a batch but the i-th
Without(elements, i) ==
    SubSeq(elements, 1, i - 1) \o SubSeq(elements, i + 1, Len(elements))

\* container c is skipped before its id is marked as seen: it has no permalink
\* with a status number, or its links cannot be read
SkippedUnmarked(c) == c.fault = "stale_links" \/ c.links = <<>> \/ c.links[1] = 0

\* container c fails while it is read
FailsWhileRead(c) == c.fault \in {"stale_links", "stale_text", "error_text"}

\* what task k would make of the batch elements
WouldProcess(k, elements) ==
    process_tweet_elements(elements, task[k].processed_ids, task[k].username,
                           call[k].start_time, now)

\* C23: whatever batch is rendered to a task that is about to extract, a container
\* of it that has no permalink or whose links cannot be read leaves the batch
\* giving exactly what it gives without that container; and a container that fails
\* while it is read gives no item, and leaves every other container that is
\* extracted when it does not fail extracted, those after it included.
C23_OnlyThatContainerSkipped ==
    \A k \in Callers :
        task[k].pc \in {"extract", "scroll"} =>
            \A elements \in Rendered(task[k]) : \A i \in DOMAIN elements :
                /\ SkippedUnmarked(elements[i]) =>
                      WouldProcess(k, elements) = WouldProcess(k, Without(elements, i))
                /\ FailsWhileRead(elements[i]) =>
                      LET healed == [elements EXCEPT ![i].fault = "none"]
                      IN  /\ Range(WouldProcess(k, healed).kept) \ {healed[i]}
                                \subseteq Range(WouldProcess(k, elements).kept)
                          /\ Len(WouldProcess(k, elements).kept)
                                >= Len(WouldProcess(k, healed).kept) - 1

\* in the second batch of the test post 2 comes after a container that failed and
\* one without a status number: it is extracted, they are not
C23_Witness ==
    \E k \in Callers :
        /\ world.script = TestScript
        /\ task[k].pc = "scroll"
        /\ Len(task[k].yields) = 2
        /\ task[k].sources = <<TestScript[1][1], TestScript[2][4]>>
        /\ FailsWhileRead(TestScript[2][2])
        /\ SkippedUnmarked(TestScript[2][3])
        /\ 4 \in task[k].processed_ids

\* s is t with elements left out, the others in the order they have in t
RECURSIVE IsSubSeq(_, _)
IsSubSeq(s, t) ==
    IF s = <<>> THEN TRUE
    ELSE IF t = <<>> THEN FALSE
    ELSE IF Head(s) = Head(t) THEN IsSubSeq(Tail(s), Tail(t))
    ELSE IsSubSeq(s, Tail(t))

\* the last n elements of s
LastN(s, n) == SubSeq(s, Len(s) - n + 1, Len(s))

\* C24: an extraction that succeeds leaves the items collected before it as they
\* were and where they were, and appends as many items as it yields, each made from
\* a container of its batch and, where the batch is known, in the order of the
\* batch; nothing else changes the items, and a task that ends normally returns
\* them as they are.
C24_AppendOnly ==
    [][\A k \in Callers :
          LET t == task[k]
              u == task'[k]
          IN  /\ (t.pc \in {"extract", "scroll"} /\ u # t /\ u.failure = "") =>
                    LET n == u.yields[Len(u.yields)]
                    IN  /\ u.yields = Append(t.yields, n)
                        /\ Len(u.user_tweets) = Len(t.user_tweets) + n
                        /\ SubSeq(u.user_tweets, 1, Len(t.user_tweets)) = t.user_tweets
                        /\ SubSeq(u.sources, 1, Len(t.sources)) = t.sources
                        /\ LastN(u.user_tweets, n) =
                              [i \in 1..n |->
                                  TweetData(LastN(u.sources, n)[i], t.username, now)]
                        /\ world.script # <<>> =>
                              \A elements \in Rendered(t) :
                                  IsSubSeq(LastN(u.sources, n), elements)
                        /\ u.pc = "finally" => u.result = u.user_tweets
              /\ (t.pc \in {"finally", "done"} /\ u.pc # "none") =>
                    /\ u.user_tweets = t.user_tweets
                    /\ u.result = t.result]_vars

\* on the feed without end the task has returned the posts in the order in which
\* the extractions found them
C24_Witness ==
    \E k \in Callers :
        /\ world.script = EndlessScript
        /\ task[k].pc = "done" /\ task[k].failure = ""
        /\ [i \in DOMAIN task[k].result |-> task[k].result[i].id]
              = [i \in 1..(max_scrolls + 1) |-> i]

\* the containers the world can render
Containers ==
    world.site \cup UNION {Range(world.script[n]) : n \in DOMAIN world.script}

\* window sizes tried
WindowSizes == 1..3

\* C25: an item made from a container without a time has, as created_at, a time
\* between the start of its run and now, inside the window; and at any moment of a
\* task, whatever the size of the window, a container without a time that has a
\* permalink with an id not seen yet and does not fail gives an item whose
\* created_at is that moment.
C25_NoTimeMeansNow ==
    \A k \in Callers :
        /\ \A i \in DOMAIN task[k].user_tweets :
              task[k].sources[i].time = <<>> =>
                  /\ task[k].user_tweets[i].created_at >= call[k].current_time
                  /\ task[k].user_tweets[i].created_at <= now
                  /\ task[k].user_tweets[i].created_at >= call[k].start_time
        /\ task[k].pc \in {"extract", "scroll"} =>
              \A c \in Containers : \A hours \in WindowSizes :
                  (/\ c.time = <<>>
                   /\ ~FailsWhileRead(c) /\ ~SkippedUnmarked(c)
                   /\ c.links[1] \notin task[k].processed_ids)
                  => LET one == ProcessContainer(c, task[k].processed_ids,
                                    task[k].username,
                                    call[k].current_time - HoursDelta(hours), now)
                     IN  /\ Len(one.processed) = 1
                         /\ one.processed[1].id = c.links[1]
                         /\ one.processed[1].created_at = now

\* a task has an item made from a container without a time, extracted some time
\* after the run started
C25_Witness ==
    \E k \in Callers : \E i \in DOMAIN task[k].user_tweets :
        /\ task[k].sources[i].time = <<>>
        /\ task[k].user_tweets[i].created_at > call[k].current_time
        /\ task[k].pc = "done" /\ task[k].result = task[k].user_tweets

\* C26: a call that has missed the cache comes to its end: it has written the entry
\* of its window and returns the mapping it wrote, or, a driver.quit() having
\* raised, it raises.  Until then it has, at any moment, at most one task, of one
\* of its accounts, which has scrolled at most max_scrolls times.
C26_RunCompletes ==
    /\ \A k \in Callers :
          (call[k].pc = "await") ~>
              \/ /\ Returned(k) /\ call[k].how = "run"
                 /\ CacheKey(call[k].hours) \in DOMAIN tweets_cache
                 /\ tweets_cache[CacheKey(call[k].hours)] = call[k].ret
                 /\ Len(call[k].ended) = Len(world.users)
              \/ call[k].pc = "raised" /\ call[k].exc = "quit"
    /\ [](\A k \in Callers :
             /\ task[k].scroll_count <= max_scrolls
             /\ call[k].i <= Len(world.users)
             /\ Len(call[k].ended) <= call[k].i)

\* a run has returned after both its accounts were scrolled as often as the cap
\* allows
C26_Witness ==
    \E k \in Callers :
        /\ world = TwoEndlessWorld
        /\ Returned(k) /\ call[k].how = "run"
        /\ \A n \in 1..2 : Len(call[k].ended[n].items) = max_scrolls + 1

\* ------------------------------------------------------------------------
\* TweetFormatter.format_for_discord (src/modules/tweet_formatter.py)
\*
\* A string is modelled by its length, a list of strings by the sequence of
\* their lengths: the function decides by len() alone. An activation is a
\* record: the input mapping in insertion order, the positions of the two
\* loops and the three locals formatted_messages, current_message and
\* current_length.
\* ------------------------------------------------------------------------

\* what the Twitter client works on
client == <<now, world, cookies, tweets_cache, tweets_cache_time, call, task, live,
            lastCall, lastRun>>

\* the most tweets of one user in an input mapping
MaxTweets == 2

\* MAX_LENGTH = 1900
MAX_LENGTH == 1900

\* len(str(n))
Digits(n) == IF n < 10 THEN 1 ELSE IF n < 100 THEN 2 ELSE IF n < 1000 THEN 3 ELSE 4

RECURSIVE SumOf(_)
SumOf(parts) == IF parts = <<>> THEN 0 ELSE Head(parts) + SumOf(Tail(parts))

\* len("\n".join(current_message)): the parts and one newline between two parts
Joined(current_message) ==
    IF current_message = <<>> THEN 0
    ELSE SumOf(current_message) + (Len(current_message) - 1)

\* sorted(tweets, key=lambda x: x['created_at'], reverse=True): stable, so
\* tweets of one time keep their order
RECURSIVE sorted_tweets(_)
sorted_tweets(tweets) ==
    IF tweets = <<>> THEN <<>>
    ELSE LET rest == sorted_tweets(Tail(tweets))
             t == Head(tweets)
             m == Cardinality({i \in 1..Len(rest) : rest[i].created_at > t.created_at})
         IN  \* rest is sorted, so the newer tweets are its first m elements
             SubSeq(rest, 1, m) \o <<t>> \o SubSeq(rest, m + 1, Len(rest))

\* f"**@{username}** ({len(sorted_tweets)} tweets)\n"
user_header(username, tweets) == 16 + Len(username) + Digits(Len(tweets))

\* f"• [{timestamp}] {tweet['text']}\n", the timestamp of strftime being 23 long
tweet_text(tweet) == 31 + tweet.text

\* f"  ❤️ {tweet['likes']} | 🔄 {tweet['retweets']} | {tweet['url']}\n\n"
tweet_meta(tweet) == 20 + Digits(tweet.likes) + Digits(tweet.retweets) + tweet.url

\* "-" * 40 + "\n"
separator == 40 + 1

\* formatted_messages.append("\n".join(current_message)); current_message = [];
\* current_length = 0
Flushed(f) ==
    [f EXCEPT !.formatted_messages = Append(@, Joined(f.current_message)),
              !.current_message = <<>>,
              !.current_length = 0]

\* current_message.append(part); current_length += len(part)
Added(f, part) ==
    [f EXCEPT !.current_message = Append(@, part), !.current_length = @ + part]

\* the texts of the input tweets: short, long enough that two do not share a
\* message, and longer than a message may be
TextLengths == {10, 900, 2000}

\* the tweets of the input mappings: created_at a time, text and url strings,
\* likes and retweets numbers
InputTweets ==
    [created_at : {1, 2}, text : TextLengths, likes : {7}, retweets : {12}, url : {50}]

InputLists == UNION {[1..m -> InputTweets] : m \in 0..MaxTweets}

\* the users of the input mappings, in insertion order
FormatUsers == <<Alice, Bob>>

\* the function entered with tweets_by_user
Formatting(tweets_by_user) ==
    [pc |-> "users", tweets_by_user |-> tweets_by_user, user |-> 1,
     sorted_tweets |-> <<>>, tweet |-> 1,
     formatted_messages |-> <<>>, current_message |-> <<>>, current_length |-> 0]

InitFormat ==
    /\ ClientIn(OrchestratorWorld)
    /\ cookies = None
    /\ \E n \in 1..Len(FormatUsers) : \E lists \in [1..n -> InputLists] :
           formatter = Formatting([i \in 1..n |->
                                      [username |-> FormatUsers[i], tweets |-> lists[i]]])
    /\ webhook = NoSend
    /\ config = NoConfig

\* for username, tweets in tweets_by_user.items(): a user without tweets is
\* passed over, another one gets the header of the section
UserSection ==
    /\ formatter.pc = "users"
    /\ formatter.user <= Len(formatter.tweets_by_user)
    /\ LET entry == formatter.tweets_by_user[formatter.user]
           sorted == sorted_tweets(entry.tweets)
           header == user_header(entry.username, sorted)
           f == IF /\ formatter.current_length + header > MAX_LENGTH
                   /\ formatter.current_message # <<>>
                THEN Flushed(formatter) ELSE formatter
       IN  formatter' =
               IF entry.tweets = <<>>
               THEN [formatter EXCEPT !.user = @ + 1]
               ELSE [Added(f, header) EXCEPT !.pc = "tweets", !.sorted_tweets = sorted,
                                             !.tweet = 1]
    /\ UNCHANGED <<client, webhook, config>>

\* for tweet in sorted_tweets: the tweet is added, after a flush where it does
\* not fit
TweetEntry ==
    /\ formatter.pc = "tweets"
    /\ formatter.tweet <= Len(formatter.sorted_tweets)
    /\ LET tweet == formatter.sorted_tweets[formatter.tweet]
           f == IF formatter.current_length + tweet_text(tweet) + tweet_meta(tweet)
                       > MAX_LENGTH
                THEN Flushed(formatter) ELSE formatter
       IN  formatter' =
               [Added(Added(f, tweet_text(tweet)), tweet_meta(tweet))
                   EXCEPT !.tweet = @ + 1]
    /\ UNCHANGED <<client, webhook, config>>

\* after the tweets of a user: the separator
Separator ==
    /\ formatter.pc = "tweets"
    /\ formatter.tweet > Len(formatter.sorted_tweets)
    /\ LET f == IF formatter.current_length + separator > MAX_LENGTH
                THEN Flushed(formatter) ELSE formatter
       IN  formatter' = [Added(f, separator) EXCEPT !.pc = "users", !.user = @ + 1]
    /\ UNCHANGED <<client, webhook, config>>

\* if current_message: flush; return formatted_messages
FormatReturn ==
    /\ formatter.pc = "users"
    /\ formatter.user > Len(formatter.tweets_by_user)
    /\ formatter' =
           [(IF formatter.current_message # <<>> THEN Flushed(formatter) ELSE formatter)
               EXCEPT !.pc = "returned"]
    /\ UNCHANGED <<client, webhook, config>>

NextFormat == UserSection \/ TweetEntry \/ Separator \/ FormatReturn

SpecFormat == InitFormat /\ [][NextFormat]_vars

\* C27: every string that format_for_discord returns is at most 2000
\* characters long, whatever the lengths of the tweets of the input
C27_WithinDiscordLimit ==
    formatter.pc = "returned" =>
        \A i \in 1..Len(formatter.formatted_messages) :
            formatter.formatted_messages[i] <= 2000

\* ------------------------------------------------------------------------
\* send_message_to_discord (src/cronjobs/send_webhook.py)
\*
\* An activation is a record: the arguments, what the JSON file holds, the
\* position in the loop over the users, the HTTP posts made so far and the
\* outcome. A path is "none" (not given), "missing" (no such file), "broken"
\* (a file json.load cannot read) or "file"; a tweet of the file is the list
\* of its image_urls; a post is the message and whether Discord accepted it.
\* ------------------------------------------------------------------------

\* the most images of one tweet in the JSON file
MaxImages == 4

\* tweet['image_urls']
Images(n) == [i \in 1..n |-> i]

\* the tweets of one user in the file: every short list, three tweets full of
\* images, and more plain tweets than one message takes
FileTweets ==
    UNION {[1..m -> {Images(n) : n \in 0..MaxImages}] : m \in 0..MaxTweets}
        \cup {[i \in 1..3 |-> Images(MaxImages)], [i \in 1..6 |-> Images(0)]}

\* json.load(f): the users of the file in order, the first with any of the
\* lists, a second one without tweets or with one
FileContents ==
    {<<[username |-> Alice, tweets |-> l]>> : l \in FileTweets}
        \cup {<<[username |-> Alice, tweets |-> l], [username |-> Bob, tweets |-> m]>> :
                 l \in FileTweets, m \in {<<>>, <<Images(1)>>}}

\* the function entered with its arguments
Sending(message_data, json_path, md_path, tweets_data) ==
    [pc |-> "called", message_data |-> message_data, json_path |-> json_path,
     md_path |-> md_path, tweets_data |-> tweets_data, user |-> 1, posts |-> <<>>,
     result |-> "none"]

InitWebhook ==
    /\ ClientIn(OrchestratorWorld)
    /\ cookies = None
    /\ formatter = NoFormat
    /\ \E message_data \in BOOLEAN :
       \E json_path \in {"none", "missing", "broken", "file"} :
       \E md_path \in {"none", "missing", "file"} :
       \E tweets_data \in (IF json_path = "file" THEN FileContents ELSE {<<>>}) :
           webhook = Sending(message_data, json_path, md_path, tweets_data)
    /\ config = NoConfig

\* requests.post(...); response.raise_for_status()
Posted(w, message, embeds, ok) ==
    [w EXCEPT !.posts = Append(@, [message |-> message, embeds |-> embeds, ok |-> ok])]

\* return True / return False
Returns(w, value) == [w EXCEPT !.pc = "returned", !.result = value]

\* an exception leaves the function
Caught_Escapes(w) == [w EXCEPT !.pc = "raised"]

\* except Exception as e: log; return False
Caught(w) == Returns(w, FALSE)

\* if message_data: post it, return True
SendMessageData ==
    /\ webhook.pc = "called"
    /\ webhook.message_data
    /\ \E ok \in BOOLEAN :
           LET w == Posted(webhook, "message_data", <<>>, ok)
           IN  webhook' = IF ok THEN Returns(w, TRUE) ELSE Caught(w)
    /\ UNCHANGED <<client, formatter, config>>

\* if not json_path or not md_path: return False; the same where one of the
\* files does not exist
Refuse ==
    /\ webhook.pc = "called"
    /\ ~webhook.message_data
    /\ \/ webhook.json_path \in {"none", "missing"}
       \/ webhook.md_path \in {"none", "missing"}
    /\ webhook' = Returns(webhook, FALSE)
    /\ UNCHANGED <<client, formatter, config>>

\* json.load, then the summary message with one field for each user
SendSummary ==
    /\ webhook.pc = "called"
    /\ ~webhook.message_data
    /\ webhook.json_path \in {"broken", "file"}
    /\ webhook.md_path = "file"
    /\ \/ /\ webhook.json_path = "broken"          \* json.load raises
          /\ webhook' = Caught(webhook)
       \/ /\ webhook.json_path = "file"
          /\ \E ok \in BOOLEAN :
                 LET w == Posted(webhook, "summary", <<"summary">>, ok)
                 IN  webhook' = IF ok THEN [w EXCEPT !.pc = "users"] ELSE Caught(w)
    /\ UNCHANGED <<client, formatter, config>>

\* tweets[:5]
recent_tweets(tweets) == SubSeq(tweets, 1, IF Len(tweets) < 5 THEN Len(tweets) ELSE 5)

\* the embeds of one tweet: its own, and one more for each image after the
\* first
TweetEmbeds(tweet) == <<"embed">> \o [i \in 1..(Len(tweet) - 1) |-> "img_embed"]

\* user_message["embeds"] after the loop over recent_tweets
RECURSIVE UserEmbeds(_)
UserEmbeds(tweets) ==
    IF tweets = <<>> THEN <<>> ELSE TweetEmbeds(Head(tweets)) \o UserEmbeds(Tail(tweets))

\* for username, tweets in tweets_data.items(): one message for a user with
\* tweets
SendUserMessage ==
    /\ webhook.pc = "users"
    /\ webhook.user <= Len(webhook.tweets_data)
    /\ LET tweets == webhook.tweets_data[webhook.user].tweets
       IN  \/ /\ recent_tweets(tweets) = <<>>
              /\ webhook' = [webhook EXCEPT !.user = @ + 1]
           \/ /\ recent_tweets(tweets) # <<>>
              /\ \E ok \in BOOLEAN :
                     LET w == Posted(webhook, "user", UserEmbeds(recent_tweets(tweets)), ok)
                     IN  webhook' = IF ok THEN [w EXCEPT !.user = @ + 1] ELSE Caught(w)
    /\ UNCHANGED <<client, formatter, config>>

\* the JSON file is posted as an attachment; return True
UploadFile ==
    /\ webhook.pc = "users"
    /\ webhook.user > Len(webhook.tweets_data)
    /\ \E ok \in BOOLEAN :
           LET w == Posted(webhook, "file", <<>>, ok)
           IN  webhook' = IF ok THEN Returns(w, TRUE) ELSE Caught(w)
    /\ UNCHANGED <<client, formatter, config>>

NextWebhook == SendMessageData \/ Refuse \/ SendSummary \/ SendUserMessage \/ UploadFile

SpecWebhook == InitWebhook /\ [][NextWebhook]_vars

\* a post of the activation was refused
SomePostFailed == \E i \in 1..Len(webhook.posts) : ~webhook.posts[i].ok

\* without message_data: a path that was not given or names no file
InputMissing ==
    /\ ~webhook.message_data
    /\ \/ webhook.json_path \in {"none", "missing"}
       \/ webhook.md_path \in {"none", "missing"}

\* C28: send_message_to_discord never raises; it returns True only when every
\* post it made succeeded and False on a missing input, a missing file or a
\* failed post; with a non-empty message_data it posts that one message and
\* nothing else, whatever json_path and md_path are
C28_SendNeverRaises ==
    /\ webhook.pc # "raised"
    /\ webhook.pc = "returned" =>
           /\ webhook.result \in BOOLEAN
           /\ webhook.result = TRUE => ~SomePostFailed
           /\ SomePostFailed \/ InputMissing => webhook.result = FALSE
           /\ webhook.message_data =>
                  /\ Len(webhook.posts) = 1
                  /\ webhook.posts[1].message = "message_data"

\* the summary and a user's message went out, the next post was refused, and
\* the call returned False
C28_Witness ==
    /\ webhook.pc = "returned"
    /\ webhook.result = FALSE
    /\ Len(webhook.posts) = 3
    /\ webhook.posts[1].ok /\ webhook.posts[2].ok /\ ~webhook.posts[3].ok

\* C29: a per-user message carries at most 10 embeds
C29_AtMostTenEmbeds ==
    webhook.pc # "none" =>
        \A i \in 1..Len(webhook.posts) :
            webhook.posts[i].message = "user" => Len(webhook.posts[i].embeds) <= 10

\* ------------------------------------------------------------------------
\* Config (src/modules/config.py) and the AISummarizer built from it
\* (src/modules/ai_summarizer.py)
\*
\* The value of an environment variable is None where it is not set and
\* <<s>> for the string s; config holds the environment, then the attributes
\* of the Config, then the client of the AISummarizer and the model of its
\* request.
\* ------------------------------------------------------------------------

\* the environments a process is started in
Environments ==
    [DISCORD_TOKEN : {None, <<"">>, <<"token">>},
     TWITTER_USERS : {None, <<" , ">>, <<"Al, bo">>},
     AI_PROVIDER : {None, <<"openai">>, <<"OpenAI">>, <<"DeepSeek">>, <<"claude">>},
     OPENAI_API_KEY : {None, <<"">>, <<"sk-o">>},
     OPENAI_MODEL : {None, <<"gpt-4">>},
     DEEPSEEK_API_KEY : {None, <<"">>, <<"sk-d">>},
     DEEPSEEK_MODEL : {None, <<"deepseek-chat">>}]

\* os.getenv(name) and os.getenv(name, default)
getenv(env, name, default) == IF env[name] = None THEN default ELSE env[name]

\* str.lower() on the provider names of the environments
lower(v) ==
    IF v = <<"OpenAI">> THEN <<"openai">>
    ELSE IF v = <<"DeepSeek">> THEN <<"deepseek">>
    ELSE v

\* [user.strip() for user in twitter_users_str.split(',') if user.strip()]
twitter_users(v) ==
    IF v = <<"Al, bo">> THEN <<"Al", "bo">>
    ELSE <<>>      \* '' and ' , ' hold no name

\* not value: None and the empty string
Not(v) == v = None \/ v = <<"">>

\* the process started in env
Started(env) == [pc |-> "env", env |-> env]

InitConfig ==
    /\ ClientIn(OrchestratorWorld)
    /\ cookies = None
    /\ formatter = NoFormat
    /\ webhook = NoSend
    /\ config \in {Started(env) : env \in Environments}

\* Config.__init__ up to the validation
Loaded(env) ==
    [discord_token |-> getenv(env, "DISCORD_TOKEN", None),
     twitter_users |-> twitter_users(getenv(env, "TWITTER_USERS", <<"">>)),
     ai_provider |-> lower(getenv(env, "AI_PROVIDER", <<"openai">>)),
     openai_api_key |-> getenv(env, "OPENAI_API_KEY", None),
     openai_model |-> getenv(env, "OPENAI_MODEL", <<"gpt-3.5-turbo">>),
     deepseek_api_key |-> getenv(env, "DEEPSEEK_API_KEY", None),
     deepseek_model |-> getenv(env, "DEEPSEEK_MODEL", None)]

\* _validate_config raises nothing
_validate_config(c) ==
    /\ ~Not(c.discord_token)
    /\ c.twitter_users # <<>>
    /\ c.ai_provider \in {<<"openai">>, <<"deepseek">>}
    /\ ~(c.ai_provider = <<"openai">> /\ Not(c.openai_api_key))
    /\ ~(c.ai_provider = <<"deepseek">> /\ Not(c.deepseek_api_key))

\* config = Config()
Construct ==
    /\ config.pc = "env"
    /\ LET c == Loaded(config.env)
       IN  config' = IF _validate_config(c)
                     THEN [pc |-> "config", env |-> config.env, config |-> c]
                     ELSE [pc |-> "ValueError", env |-> config.env]
    /\ UNCHANGED <<client, formatter, webhook>>

\* AISummarizer(config): _initialize_client
_initialize_client ==
    /\ config.pc = "config"
    /\ config' = [pc |-> "summarizer", env |-> config.env, config |-> config.config,
                  client |-> [api_key |-> config.config.deepseek_api_key,
                              base_url |-> "https://api.deepseek.com"]]
    /\ UNCHANGED <<client, formatter, webhook>>

\* the request of _generate_deepseek_json_summary
_call_deepseek_api ==
    /\ config.pc = "summarizer"
    /\ config' = [pc |-> "called", env |-> config.env, config |-> config.config,
                  client |-> config.client,
                  request |-> [api_key |-> config.client.api_key,
                               model |-> config.config.deepseek_model]]
    /\ UNCHANGED <<client, formatter, webhook>>

NextConfig == Construct \/ _initialize_client \/ _call_deepseek_api

SpecConfig == InitConfig /\ [][NextConfig]_vars

\* C30: once a Config was constructed, the API key the AISummarizer makes its
\* client with and the model it names in its request are set
C30_SummarizerSettingsPresent ==
    /\ config.pc \in {"summarizer", "called"} => ~Not(config.client.api_key)
    /\ config.pc = "called" => ~Not(config.request.model)

\* the call has collected and written its entry, and holds what it returns
Collected(k) == Returned(k) /\ call[k].how = "run"

\* C31: the time stored with an entry is the time its run started, taken before the
\* first account was collected; a call is served an entry only less than the TTL
\* after the start of the run that wrote it; and the entry of a run that lasted the
\* TTL or longer is a miss at once
C31_StampedWithRunStart ==
    \A k \in Callers :
        /\ Collected(k) =>
              /\ CacheKey(call[k].hours) \in DOMAIN tweets_cache_time
              /\ tweets_cache_time[CacheKey(call[k].hours)] = call[k].current_time
              /\ now - call[k].current_time >= cache_ttl_minutes * 60 =>
                    ~CacheFresh(tweets_cache, tweets_cache_time,
                                CacheKey(call[k].hours), now)
        /\ (Returned(k) /\ call[k].how = "cache") =>
              /\ call[k].hours \in DOMAIN lastRun
              /\ tweets_cache_time[CacheKey(call[k].hours)] = lastRun[call[k].hours].start
              /\ call[k].current_time - lastRun[call[k].hours].start
                    < cache_ttl_minutes * 60

\* a run started at time 0 has written its entry when the TTL has gone by
C31_Witness ==
    \E k \in Callers :
        /\ Collected(k)
        /\ call[k].current_time = 0
        /\ now = cache_ttl_minutes * 60
        /\ tweets_cache_time[CacheKey(call[k].hours)] = 0

\* the ids of a list of items
Ids(tweets) == {tweets[i].id : i \in DOMAIN tweets}

\* the ids task k has seen without accepting an item for them
SeenNotAccepted(k) == task[k].processed_ids \ Ids(task[k].user_tweets)

\* C32: the id of a container is marked as seen once it is read, whether or not the
\* container is then out of the window or fails while the rest of it is read; and
\* an id that a task has seen without accepting an item for it is not the id of any
\* item the task accepts afterwards, however it is rendered then
C32_SeenIdNeverAccepted ==
    /\ [](\A k \in Callers :
            task[k].pc \in {"extract", "scroll"} =>
                \A elements \in Rendered(task[k]) : \A i \in DOMAIN elements :
                    ~SkippedUnmarked(elements[i]) =>
                        elements[i].links[1] \in WouldProcess(k, elements).processed_ids)
    /\ [][\A k \in Callers :
            \A id \in SeenNotAccepted(k) : id \notin Ids(task'[k].user_tweets)]_vars

\* posts 1 and 2 were seen at the first extraction, one failing and one too old; the
\* scroll rendered them well, with post 3: only post 3 was accepted
C32_Witness ==
    \E k \in Callers :
        /\ world.script = RerenderScript
        /\ NormalEnd(task[k])
        /\ task[k].yields = <<0, 1, 0>>
        /\ Ids(task[k].result) = {3}
        /\ SeenNotAccepted(k) = {1, 2}

\* C33: a task in which an exception or a timeout reached one of the except clauses
\* returns the empty list, whatever it had accumulated before; and the mapping of
\* its call has the empty list for that account
C33_FailureDiscardsAccumulated ==
    \A k \in Callers :
        /\ (task[k].pc \in {"finally", "done"} /\ task[k].failure # "") =>
              task[k].result = <<>>
        /\ \A n \in 1..Len(call[k].ended) :
              call[k].ended[n].failed =>
                  /\ call[k].pc \in {"await", "sleep"} =>
                        call[k].tweets_by_user[Lower(world.users[n])] = <<>>
                  /\ Collected(k) => call[k].ret[Lower(world.users[n])] = <<>>

\* a scroll threw after an item had been accepted: the task has ended with the empty
\* list
C33_Witness ==
    \E k \in Callers :
        /\ task[k].pc = "done"
        /\ task[k].failure = "scroll"
        /\ task[k].user_tweets # <<>>
        /\ task[k].result = <<>>

\* every account of call k has ended in a failure: its session was not applied, its
\* page or its containers did not come, or an exception was caught
AllFailed(k) ==
    /\ Len(call[k].ended) = Len(world.users)
    /\ \A n \in 1..Len(call[k].ended) : call[k].ended[n].failed

\* C34: a run in which every account failed returns the mapping of every account to
\* the empty list and stores it for its window, with the time of its start; and a
\* call for a window whose last run gave that mapping, begun less than the TTL after
\* the start of that run, returns that mapping from the cache: no task is submitted
\* and no browser is acquired
C34_AllFailedRunIsServed ==
    \A k \in Callers :
        /\ (Collected(k) /\ AllFailed(k)) =>
              /\ call[k].ret = EmptyByUser(world.users)
              /\ CacheKey(call[k].hours) \in DOMAIN tweets_cache
              /\ tweets_cache[CacheKey(call[k].hours)] = EmptyByUser(world.users)
              /\ tweets_cache_time[CacheKey(call[k].hours)] = call[k].current_time
        /\ (/\ call[k].pc # "idle"
            /\ call[k].hours \in DOMAIN lastRun
            /\ lastRun[call[k].hours].result = EmptyByUser(world.users)
            /\ call[k].current_time - lastRun[call[k].hours].start
                  < cache_ttl_minutes * 60)
           => (/\ Returned(k) /\ call[k].how = "cache"
               /\ call[k].ret = EmptyByUser(world.users)
               /\ call[k].acquired = 0
               /\ task[k].pc = "none")

\* there is no session, so that every account of every run is unauthenticated: a
\* call made some time after such a run is served the empty mapping
C34_Witness ==
    \E k \in Callers :
        /\ cookies = None
        /\ Returned(k) /\ call[k].how = "cache"
        /\ call[k].ret = EmptyByUser(world.users)
        /\ call[k].hours \in DOMAIN lastRun
        /\ call[k].current_time > lastRun[call[k].hours].start

\* C35: a task that got as far as the initial extraction does not end by the return
\* of its list before it has scrolled and extracted a second time, whatever the
\* initial extraction accepted; a task that has extracted once and has not failed
\* is about to scroll
C35_ScrollsAtLeastOnce ==
    \A k \in Callers :
        LET t == task[k]
        IN  /\ (t.pc \in {"finally", "done"} /\ t.failure = "") =>
                  /\ t.scroll_count >= 1
                  /\ Len(t.yields) >= 2
            /\ (Len(t.yields) = 1 /\ t.failure = "") =>
                  /\ t.pc = "scroll"
                  /\ t.scroll_count = 0

\* nothing was accepted at the initial extraction; the task scrolled, extracted
\* again, accepted nothing again, and returned
C35_Witness ==
    \E k \in Callers :
        /\ task[k].pc = "done"
        /\ task[k].failure = ""
        /\ task[k].yields = <<0, 0>>
        /\ task[k].scroll_count = 1

\* call k is collecting
InRun(k) == call[k].pc \in {"await", "sleep"}

\* the step in which the run of call k completes: lines 364-368
Completes(k) == call[k].pc = "sleep" /\ call'[k].pc = "returned"

\* C36: a call begun while another call is collecting is neither held back nor
\* served by that call: it misses wherever the entry of its window is absent or
\* stale, and submits its own task; each of the calls collects every account; the
\* entry of a window is written by the completion of a run and by nothing else, and
\* the run that completes replaces it by its own mapping and the time of its own
\* start, whatever time was stored
C36_LastCompletedRunWins ==
    /\ [](\A k \in Callers : Collected(k) => Len(call[k].ended) = Len(world.users))
    /\ [][\A k, j \in Callers :
            (/\ k # j /\ InRun(j)
             /\ call[k].pc = "idle" /\ call'[k].pc # "idle"
             /\ ~CacheFresh(tweets_cache, tweets_cache_time, CacheKey(call'[k].hours), now))
            => (call'[k].pc = "await" /\ task'[k].pc = "queued")]_vars
    /\ [][\A k \in Callers :
            Completes(k) =>
                /\ tweets_cache'[CacheKey(call[k].hours)] = call'[k].ret
                /\ tweets_cache_time'[CacheKey(call[k].hours)] = call[k].current_time]_vars
    /\ [][(tweets_cache' # tweets_cache \/ tweets_cache_time' # tweets_cache_time)
            => \E k \in Callers : Completes(k)]_vars

\* two runs for the same window have both completed; the one that started first
\* completed last, and the entry has its mapping and its start, which is before the
\* start of the other
C36_Witness ==
    \E k, j \in Callers :
        /\ Collected(k) /\ Collected(j)
        /\ call[k].hours = call[j].hours
        /\ call[k].current_time < call[j].current_time
        /\ call[k].ret # call[j].ret
        /\ tweets_cache[CacheKey(call[k].hours)] = call[k].ret
        /\ tweets_cache_time[CacheKey(call[k].hours)] = call[k].current_time

\* the step in which call k is served from the cache
Hit(k) == call[k].pc = "idle" /\ call'[k].pc = "returned"

\* C37: a call served from the cache returns the mapping stored for its window, which
\* is the mapping the last run for that window wrote, whatever the start of its own
\* window is; and the step that serves it leaves every entry and every stored time
\* as they are, and starts no task and no browser
C37_HitChangesNothing ==
    /\ [](\A k \in Callers :
            (Returned(k) /\ call[k].how = "cache") =>
                /\ call[k].hours \in DOMAIN lastRun
                /\ call[k].ret = lastRun[call[k].hours].result
                /\ call[k].ret = tweets_cache[CacheKey(call[k].hours)]
                /\ tweets_cache_time[CacheKey(call[k].hours)]
                      = lastRun[call[k].hours].start)
    /\ [][\A k \in Callers :
            Hit(k) =>
                /\ call'[k].how = "cache"
                /\ call'[k].ret = tweets_cache[CacheKey(call'[k].hours)]
                /\ tweets_cache' = tweets_cache
                /\ tweets_cache_time' = tweets_cache_time
                /\ task' = task /\ live' = live /\ cookies' = cookies]_vars

\* a second hit on an entry, later than the first and still less than the TTL after
\* the start of the run: the item served is older than the window of the call, and
\* the entry has the time of the run
C37_Witness ==
    \E k \in Callers :
        /\ Returned(k) /\ call[k].how = "cache"
        /\ lastCall.hours = call[k].hours
        /\ lastCall.start > lastRun[call[k].hours].start
        /\ call[k].current_time > lastCall.start
        /\ tweets_cache_time[CacheKey(call[k].hours)] = lastRun[call[k].hours].start
        /\ \E item \in ItemsOf(call[k].ret) : item.created_at < WindowStart(k)

====
